---- MODULE Spec2Model ----
(***************************************************************************)
(* Model of square-bgg-image-sync: the metadata client's retrying fetch,   *)
(* the catalog enumeration, the dispatcher / worker fan-out and the        *)
(* single-loop sync run with its authentication circuit breaker.           *)
(***************************************************************************)
EXTENDS Integers, Sequences, FiniteSets, TLC

VARIABLES
    \* -- the trigger event and the catalog as the catalog service holds it
    event,          \* [force, filterName] of sync/images.requested
    catalog,        \* sequence of catalog objects (ITEM listing order)
    \* -- the catalog service's categories and the client of square.ts
    categories,     \* sequence of CATEGORY objects
    accessToken,    \* SQUARE_ACCESS_TOKEN is set
    client,         \* _client holds a client
    catalogRequests, \* requests issued to the catalog service by listCatalogItems
    \* -- dispatcher (sync-images.ts syncImages, fan-out variant)
    dpc,            \* position of the dispatcher handler
    dItems,         \* filtered item list
    bi,             \* loop variable i of the batch loop
    sent,           \* sequence of batches handed to step.sendEvent
    dret,           \* returned totalItems (-1 before return)
    \* -- job platform as configured by serve()
    served,         \* ids of the functions registered with serve()
    ingested,       \* number of sent batches the platform has ingested
    runs,           \* item ids for which a sync-single-item run was created
    cancelled,      \* a sync/images.cancel event has been received
    runNo,          \* number of the dispatcher run (1 for the first)
    syncedEarlier,  \* items that reached synced in a completed earlier run
    \* -- workers (sync-images.ts syncSingleItem)
    wk,             \* item id -> worker run record
    \* -- single-loop run (syncImages with circuit breaker)
    lpc,            \* position of the single-loop handler
    lItems,         \* filtered item list of the loop
    idx,            \* number of items the loop has taken
    authErrorCount, \* circuit-breaker counter
    results,        \* outcome list
    lret,           \* returned summary record
    env,            \* responses of the external services to each item
    \* -- fetchWithBackoff
    fpc,            \* position inside fetchWithBackoff
    furl,           \* url of the operation
    attempt,        \* parameter attempt of the current call
    requests,       \* HTTP requests issued by the operation
    courtesy,       \* courtesy sleeps taken
    backoffs,       \* backoff sleeps taken
    lastStatus,     \* status of the last response
    ferr,           \* error thrown by the operation
    delays,         \* the backoff sleeps of the operation, in milliseconds
    \* -- findBestMatch (bgg.ts) with the services that answer it
    minput,         \* productName, hints and the services' answers
    mpc,            \* position inside findBestMatch
    searchName,     \* local variable searchName
    lookups,        \* identifier lookups requested
    calls,          \* one record for each searchAndScore call made
    bestMatch,      \* local variable match
    mret,           \* value returned by findBestMatch
    \* -- updateItemDescription (square.ts)
    descPc,         \* position inside updateItemDescription
    existing,       \* the object read by retrieveCatalogObject
    upserts,        \* upsert requests issued
    descLog,        \* one record for each finished updateItemDescription call
    edits,          \* edits of the item made by others at the catalog service
    \* -- POST /api/trigger-sync
    request,        \* the request body and what inngest.send will do
    reply,          \* the answer of the route
    \* -- dispatcher runs in flight at the same time, and the runs of their items
    syncRuns,       \* run number -> record of a dispatcher run
    itemRuns        \* the sync-single-item runs created, in creation order

dvars == <<dpc, dItems, bi, sent, dret>>
pvars == <<served, ingested, runs, cancelled, runNo, syncedEarlier>>
lvars == <<lpc, lItems, idx, authErrorCount, results, lret, env>>
fvars == <<fpc, furl, attempt, requests, courtesy, backoffs, lastStatus, ferr, delays>>
mvars == <<minput, mpc, searchName, lookups, calls, bestMatch, mret>>
svars == <<categories, accessToken, client, catalogRequests>>
uvars == <<descPc, existing, upserts, descLog, edits>>
tvars == <<request, reply>>
rvars == <<syncRuns, itemRuns>>
vars == <<event, catalog, svars, dvars, pvars, wk, lvars, fvars, mvars, uvars, tvars, rvars>>

(***************************************************************************)
(* Bounds of the model                                                     *)
(***************************************************************************)
MaxItems == 233          \* largest catalog listing of the dispatcher runs
SmallItems == 9          \* largest of the small catalog listings
MaxLoopItems == 14       \* largest catalog listing of the single-loop runs
MaxWorkItems == 3        \* work items of the worker runs
LoopWindowStarts == 3    \* first ids at which a response window may start
CancelItems == 2         \* largest catalog listing of the cancelled runs
ListItems == 5          \* catalog objects of the listings with varied categories
SyncItems == 2          \* catalog objects of the two-run deployment
MaxResults == 6          \* longest result list the search endpoint answers

(***************************************************************************)
(* Strings: a string is a sequence of one-character strings                *)
(***************************************************************************)
Lower(c) ==
    CASE c = "C" -> "c" [] c = "A" -> "a" [] c = "T" -> "t" [] c = "Z" -> "z"
      [] c = "G" -> "g" [] c = "D" -> "d" [] c = "B" -> "b" [] c = "O" -> "o"
      [] c = "R" -> "r" [] c = "M" -> "m" [] c = "E" -> "e" [] OTHER -> c

toLowerCase(s) == [k \in 1..Len(s) |-> Lower(s[k])]

includes(s, sub) ==
    \E k \in 0..(Len(s) - Len(sub)) :
        \A j \in 1..Len(sub) : s[k + j] = sub[j]

RECURSIVE trimStart(_)
trimStart(s) == IF s # <<>> /\ Head(s) = " " THEN trimStart(Tail(s)) ELSE s

RECURSIVE trimEnd(_)
trimEnd(s) ==
    IF s # <<>> /\ s[Len(s)] = " " THEN trimEnd(SubSeq(s, 1, Len(s) - 1)) ELSE s

trim(s) == trimEnd(trimStart(s))

\* Array.prototype.slice(from, to) with 0-based, end-exclusive indices
slice(s, from, to) ==
    LET hi == IF to > Len(s) THEN Len(s) ELSE to
    IN  IF from >= hi THEN <<>> ELSE SubSeq(s, from + 1, hi)

Range(s) == {s[k] : k \in 1..Len(s)}

(***************************************************************************)
(* The catalog service: CATEGORY and ITEM objects                          *)
(***************************************************************************)
GAME_CATEGORY_KEYWORDS ==
    << <<"b","o","a","r","d"," ","g","a","m","e">>,
       <<"c","a","r","d"," ","g","a","m","e">>,
       <<"b","o","a","r","d"," ","g","a","m","e","s">>,
       <<"c","a","r","d"," ","g","a","m","e","s">>,
       <<"t","a","b","l","e","t","o","p">>,
       <<"t","a","b","l","e"," ","t","o","p">>,
       <<"g","a","m","e","s">> >>

\* CATEGORY objects of the catalog
Categories ==
    << [id |-> "cG", name |-> <<"C","a","r","d"," ","G","a","m","e","s">>],
       [id |-> "cD", name |-> <<"D","r","i","n","k","s">>] >>

\* Attribute combinations of ITEM objects; a listing of n objects cycles
\* through them starting at an offset.
ObjectKinds ==
    << [name |-> <<"C","a">>,     nImages |-> 0, desc |-> <<>>,         catIds |-> <<"cG">>,       upc |-> <<>>],
       [name |-> <<"c","A","t">>, nImages |-> 1, desc |-> <<"t">>,      catIds |-> <<"cG">>,       upc |-> <<"4">>],
       [name |-> <<"a","z">>,     nImages |-> 1, desc |-> <<>>,         catIds |-> <<"cD", "cG">>, upc |-> <<>>],
       [name |-> <<"C","a">>,     nImages |-> 0, desc |-> <<"t">>,      catIds |-> <<"cG">>,       upc |-> <<"4">>],
       [name |-> <<"c","A","t">>, nImages |-> 1, desc |-> <<" ">>,      catIds |-> <<"cG">>,       upc |-> <<>>],
       [name |-> <<"a","z">>,     nImages |-> 0, desc |-> <<" ", "t">>, catIds |-> <<"cG">>,       upc |-> <<>>],
       [name |-> <<"Z">>,         nImages |-> 0, desc |-> <<>>,         catIds |-> <<"cD">>,       upc |-> <<>>],
       [name |-> <<"4","0","1">>, nImages |-> 0, desc |-> <<>>,         catIds |-> <<"cG">>,       upc |-> <<>>] >>

NKinds == Len(ObjectKinds)

KindOf(k, off) == ObjectKinds[((k + off) % NKinds) + 1]

CatalogOf(n, off) ==
    [k \in 1..n |->
        [id |-> k, name |-> KindOf(k, off).name, nImages |-> KindOf(k, off).nImages,
         desc |-> KindOf(k, off).desc, catIds |-> KindOf(k, off).catIds,
         upc |-> KindOf(k, off).upc, version |-> 1, keys |-> {}]]

\* listing sizes: small ones, and ones whose filtered list ends around one
\* and two full batches
CatalogSizes ==
    (0..SmallItems) \cup ((MaxItems - 120)..(MaxItems - 116)) \cup ((MaxItems - 4)..MaxItems)

FilterNames == { <<>>, <<"c","a">>, <<"A","Z">> }

Events == [force : BOOLEAN, filterName : FilterNames]

(***************************************************************************)
(* square.ts                                                               *)
(***************************************************************************)
\* the client is built without looking at the access token
getSquareClient_unchecked(cached, token) == [thrown |-> FALSE, client |-> TRUE]

\* getSquareClient: the cached client, or a new one when the token is set;
\* the throw comes before the assignment of _client
getSquareClient(cached, token) ==
    IF cached THEN [thrown |-> FALSE, client |-> TRUE]
    ELSE IF ~token THEN [thrown |-> TRUE, client |-> cached]
    ELSE [thrown |-> FALSE, client |-> TRUE]

\* the ids of the CATEGORY objects whose lower-cased name includes a keyword
fetchGameCategoryIds ==
    { categories[c].id : c \in
        { c \in 1..Len(categories) :
            \E kw \in 1..Len(GAME_CATEGORY_KEYWORDS) :
                includes(toLowerCase(categories[c].name), GAME_CATEGORY_KEYWORDS[kw]) } }

\* any categorised item is taken for a game
isGame_anyCategory(obj, gameCats) == Len(obj.catIds) > 0

isGame(obj, gameCats) == \E c \in 1..Len(obj.catIds) : obj.catIds[c] \in gameCats

\* the SquareCatalogItem pushed for one ITEM object
CatalogItem(obj) ==
    [objectId |-> obj.id,
     name |-> obj.name,
     hasImage |-> obj.nImages > 0,
     hasDescription |-> Len(trim(obj.desc)) > 0,
     meta |-> [upc |-> obj.upc],
     categoryIds |-> obj.catIds]

listCatalogItems(objs) ==
    LET gameCats == fetchGameCategoryIds
        kept == SelectSeq(objs, LAMBDA o : isGame(o, gameCats))
    IN  IF gameCats = {} THEN <<>>
        ELSE [k \in 1..Len(kept) |-> CatalogItem(kept[k])]

\* catalog requests of one listCatalogItems call: the CATEGORY listing, and
\* the ITEM listing unless no game category was found
listRequests == IF fetchGameCategoryIds = {} THEN 1 ELSE 2

\* idempotencyKey: `bgg-sync-${catalogObjectId}-${Date.now()}`
idempotencyKey(catalogObjectId, now) == <<"bgg-sync", catalogObjectId, now>>

\* the image object is created but not attached to the item
createCatalogImage_detached(cat, objectId, key) ==
    IF objectId \in DOMAIN cat /\ key \notin cat[objectId].keys
      THEN [cat EXCEPT ![objectId].keys = @ \cup {key}]
      ELSE cat

\* createCatalogImage taking effect at the catalog service: a new image is
\* attached to the object unless the idempotency key was used before
createCatalogImage(cat, objectId, key) ==
    IF objectId \in DOMAIN cat /\ key \notin cat[objectId].keys
      THEN [cat EXCEPT ![objectId].nImages = @ + 1,
                       ![objectId].keys = @ \cup {key},
                       ![objectId].version = @ + 1]
      ELSE cat

(***************************************************************************)
(* square.ts: updateItemDescription and the catalog service it talks to    *)
(***************************************************************************)
MaxDescCalls == 3   \* calls of updateItemDescription in one behaviour
MaxEdits == 2       \* edits made by others in one behaviour

\* null in place of a catalog object
NoObject == [id |-> 0, version |-> 0]

\* the descriptions written
Descriptions == { <<"n">>, <<"t">> }

\* retrieveCatalogObject(catalogObjectId): result.object, null when the
\* object is gone
retrieveCatalogObject(cat, objectId) ==
    IF objectId \in DOMAIN cat THEN cat[objectId] ELSE NoObject

\* the item data sent holds nothing but the description
itemData_bare(obj, descriptionHtml) ==
    [obj EXCEPT !.name = <<>>, !.catIds = <<>>, !.upc = <<>>,
                !.desc = descriptionHtml]

\* itemData: { ...existing.itemData, descriptionHtml }
itemData(obj, descriptionHtml) == [obj EXCEPT !.desc = descriptionHtml]

\* the version sent is the one the service holds when the upsert is issued
upsertVersion_current(obj, cat) ==
    IF obj.id \in DOMAIN cat THEN cat[obj.id].version ELSE obj.version

\* version: existing.version
upsertVersion(obj, cat) == obj.version

\* the catalog service accepts an upsert of an existing object only when the
\* version sent is the version it holds (optimistic concurrency)
accepts(cat, objectId, version) ==
    objectId \in DOMAIN cat /\ cat[objectId].version = version

\* a call updateItemDescription(catalogObjectId, descriptionHtml) begins
DescCall ==
    /\ descPc \in {"idle", "done", "failed"}
    /\ Len(descLog) < MaxDescCalls
    /\ descPc' = "read"
    /\ existing' = NoObject
    /\ UNCHANGED <<event, catalog, svars, upserts, descLog, edits, tvars, rvars, dvars, pvars,
                   wk, lvars, fvars, mvars>>

\* getSquareClient, retrieveCatalogObject, and the throw when nothing came
DescRead ==
    /\ descPc = "read"
    /\ LET c == getSquareClient(client, accessToken)
           obj == retrieveCatalogObject(catalog, 1)
       IN  IF c.thrown \/ obj = NoObject
             THEN /\ descPc' = "failed"
                  /\ descLog' = Append(descLog,
                        [read |-> NoObject, upserted |-> FALSE, version |-> 0,
                         stale |-> FALSE, accepted |-> FALSE, after |-> NoObject])
                  /\ UNCHANGED <<existing, client>>
             ELSE /\ descPc' = "upsert"
                  /\ existing' = obj
                  /\ client' = c.client
                  /\ UNCHANGED descLog
    /\ UNCHANGED <<event, catalog, categories, accessToken, catalogRequests, upserts,
                   edits, tvars, rvars, dvars, pvars, wk, lvars, fvars, mvars>>

\* upsertCatalogObject with the item data and the version; a rejected upsert
\* makes the SDK call throw
DescUpsert ==
    /\ descPc = "upsert"
    /\ \E html \in Descriptions :
         LET version == upsertVersion(existing, catalog)
             accepted == accepts(catalog, existing.id, version)
             written == [itemData(existing, html) EXCEPT !.version = version + 1]
         IN  /\ upserts' = upserts + 1
             /\ catalog' = IF accepted THEN [catalog EXCEPT ![existing.id] = written]
                            ELSE catalog
             /\ descPc' = IF accepted THEN "done" ELSE "failed"
             /\ descLog' = Append(descLog,
                   [read |-> existing, upserted |-> TRUE, version |-> version,
                    stale |-> retrieveCatalogObject(catalog, existing.id) # existing,
                    accepted |-> accepted,
                    after |-> retrieveCatalogObject(catalog', existing.id)])
    /\ UNCHANGED <<event, svars, existing, edits, tvars, rvars, dvars, pvars, wk, lvars, fvars,
                   mvars>>

\* someone else renames the item at the catalog service
ExternalEdit ==
    /\ edits < MaxEdits
    /\ 1 \in DOMAIN catalog
    /\ catalog' = [catalog EXCEPT ![1].name = Append(@, "!"), ![1].version = @ + 1]
    /\ edits' = edits + 1
    /\ UNCHANGED <<event, svars, descPc, existing, upserts, descLog, tvars, rvars, dvars, pvars,
                   wk, lvars, fvars, mvars>>

\* someone else deletes the item at the catalog service
ExternalDelete ==
    /\ 1 \in DOMAIN catalog
    /\ catalog' = <<>>
    /\ UNCHANGED <<event, svars, uvars, tvars, rvars, dvars, pvars, wk, lvars, fvars, mvars>>

(***************************************************************************)
(* sync-images.ts: the dispatcher                                          *)
(***************************************************************************)
BATCH_SIZE == 100

\* the name filter applied to no run
FilterItems_anyName(allItems, force, filterName) ==
    IF ~force THEN SelectSeq(allItems, LAMBDA i : ~i.hasImage) ELSE allItems

\* the image filter applied to no run
FilterItems_unfiltered(allItems, force, filterName) ==
    IF filterName # <<>>
      THEN SelectSeq(allItems,
             LAMBDA i : includes(toLowerCase(i.name), toLowerCase(filterName)))
      ELSE allItems

\* the run-level filters of both syncImages variants
FilterItems(allItems, force, filterName) ==
    LET afterForce == IF ~force
                        THEN SelectSeq(allItems, LAMBDA i : ~i.hasImage)
                        ELSE allItems
    IN  IF filterName # <<>>
          THEN SelectSeq(afterForce,
                 LAMBDA i : includes(toLowerCase(i.name), toLowerCase(filterName)))
          ELSE afterForce

ItemEvent(item) == [name |-> "sync/item.process", data |-> [item |-> item]]

\* slices that overlap by one item
BatchAt_overlap(items, i) == slice(items, i, i + BATCH_SIZE + 1)

\* const batch = items.slice(i, i + BATCH_SIZE)
BatchAt(items, i) == slice(items, i, i + BATCH_SIZE)

\* step fetch-square-catalog: listCatalogItems begins with getSquareClient;
\* when that throws the step fails, and every retry of the step by the
\* platform reads the same environment and fails alike, so the run fails
DispatcherFetch ==
    /\ dpc = "start"
    /\ LET c == getSquareClient(client, accessToken)
       IN  IF c.thrown
             THEN /\ dpc' = "failed"
                  /\ UNCHANGED <<dItems, bi, client, catalogRequests>>
             ELSE /\ dItems' = FilterItems(listCatalogItems(catalog), event.force,
                                           event.filterName)
                  /\ bi' = 0
                  /\ dpc' = "batch"
                  /\ client' = c.client
                  /\ catalogRequests' = catalogRequests + listRequests
    /\ UNCHANGED <<event, catalog, categories, accessToken, uvars, tvars, rvars, sent, dret,
                   pvars, wk, lvars, fvars, mvars>>

DispatcherSendBatch ==
    /\ dpc = "batch"
    /\ bi < Len(dItems)
    /\ LET batch == BatchAt(dItems, bi)
       IN  sent' = Append(sent, [k \in 1..Len(batch) |-> ItemEvent(batch[k])])
    /\ bi' = bi + BATCH_SIZE
    /\ UNCHANGED <<event, catalog, svars, uvars, tvars, rvars, dpc, dItems, dret, pvars, wk, lvars, fvars, mvars>>

DispatcherReturn ==
    /\ dpc = "batch"
    /\ ~(bi < Len(dItems))
    /\ dret' = Len(dItems)
    /\ dpc' = "done"
    /\ UNCHANGED <<event, catalog, svars, uvars, tvars, rvars, dItems, bi, sent, pvars, wk, lvars, fvars, mvars>>

(***************************************************************************)
(* api/inngest/route.ts: what the job platform runs                        *)
(***************************************************************************)
\* functions: [syncImages]
ServedFunctions == {"sync-bgg-images-to-square"}

\* trigger of each function defined in sync-images.ts
TriggerOf(fn) ==
    CASE fn = "sync-bgg-images-to-square" -> "sync/images.requested"
      [] fn = "sync-single-item" -> "sync/item.process"

\* searches, uploads, descUpdates count the executions of findBestMatch,
\* uploadImageToSquareItem and updateItemDescription made for the run
QueuedRun ==
    [pc |-> "queued", resume |-> "search", failures |-> 0, retries |-> 0,
     searches |-> 0, uploads |-> 0, descUpdates |-> 0,
     match |-> "unset", imageId |-> "none"]

\* The platform ingests one sent batch and creates a run of every served
\* function whose trigger is the event's name.
PlatformIngest ==
    /\ ingested < Len(sent)
    /\ LET batch == sent[ingested + 1]
           created == { batch[k].data.item.objectId : k \in
                          { k \in 1..Len(batch) :
                              \E fn \in served : TriggerOf(fn) = batch[k].name } }
       IN  /\ runs' = runs \cup created
           /\ wk' = [i \in DOMAIN wk |-> IF i \in created THEN QueuedRun ELSE wk[i]]
    /\ ingested' = ingested + 1
    /\ UNCHANGED <<event, catalog, svars, uvars, tvars, rvars, dvars, served, cancelled, runNo,
                   syncedEarlier, lvars, fvars, mvars>>

\* the runs of the items have all ended
Settled == \A i \in runs : wk[i].pc \in {"synced", "no_match", "error", "cancelled"}

\* A second sync/images.requested event with the same data arrives after the
\* first run and the runs of its items have ended.
SecondRun ==
    /\ runNo = 1
    /\ dpc = "done" /\ ingested = Len(sent) /\ Settled
    /\ runNo' = 2
    /\ syncedEarlier' = {i \in runs : wk[i].pc = "synced"}
    /\ dpc' = "start" /\ dItems' = <<>> /\ bi' = 0 /\ sent' = <<>> /\ dret' = -1
    /\ ingested' = 0 /\ runs' = {}
    /\ UNCHANGED <<event, catalog, svars, uvars, tvars, rvars, served, cancelled, wk, lvars,
                   fvars, mvars>>

\* cancelOn of each function defined in sync-images.ts
CancelOn(fn) ==
    CASE fn = "sync-bgg-images-to-square" -> {"sync/images.cancel"}
      [] fn = "sync-single-item" -> {}

\* a run of fn is stopped by the cancel event before its next step
stops(fn) == "sync/images.cancel" \in CancelOn(fn)

\* The platform receives sync/images.cancel: a run of a function that lists
\* the event in cancelOn takes no further step.
PlatformCancel ==
    /\ ~cancelled
    /\ cancelled' = TRUE
    /\ dpc' = IF stops("sync-bgg-images-to-square") /\ dpc \in {"start", "batch"}
                THEN "cancelled" ELSE dpc
    /\ wk' = [i \in DOMAIN wk |->
                IF stops("sync-single-item") /\ wk[i].pc \in {"queued", "retry_wait"}
                  THEN [wk[i] EXCEPT !.pc = "cancelled"] ELSE wk[i]]
    /\ UNCHANGED <<event, catalog, svars, uvars, tvars, rvars, dItems, bi, sent, dret,
                   served, ingested, runs, runNo, syncedEarlier, lvars, fvars, mvars>>

(***************************************************************************)
(* bgg.ts: fetchWithBackoff                                                *)
(***************************************************************************)
MAX_RETRIES == 6

Statuses == {200, 401, 403, 404, 429, 500, 503}

StatusChars(st) ==
    CASE st = 200 -> <<"2","0","0">> [] st = 401 -> <<"4","0","1">>
      [] st = 403 -> <<"4","0","3">> [] st = 404 -> <<"4","0","4">>
      [] st = 429 -> <<"4","2","9">> [] st = 500 -> <<"5","0","0">>
      [] st = 503 -> <<"5","0","3">>

\* res.ok
ok(st) == st >= 200 /\ st <= 299

RECURSIVE encodeURIComponent(_)
encodeURIComponent(s) ==
    IF s = <<>> THEN <<>>
    ELSE (IF Head(s) = " " THEN <<"%","2","0">> ELSE <<Head(s)>>)
            \o encodeURIComponent(Tail(s))

\* url built by searchBgg(query)
SearchUrl(query) ==
    <<"s","e","a","r","c","h","?","q","u","e","r","y","=">>
        \o encodeURIComponent(trim(query))

\* url built by fetchBggThing(bggId), the id given by its digits
ThingUrl(bggId) == <<"t","h","i","n","g","?","i","d","=">> \o bggId

Urls == { SearchUrl(<<"C","a">>), SearchUrl(<<"4","0","1">>), ThingUrl(<<"1","3">>) }

\* one retry more than MAX_RETRIES
ShouldRetry_offByOne(st, att) == (st = 429 \/ st >= 500) /\ att <= MAX_RETRIES

\* every 4xx status retried as well
ShouldRetry_any4xx(st, att) == st >= 400 /\ att < MAX_RETRIES

\* the retry condition of fetchWithBackoff
ShouldRetry(st, att) == (st = 429 \/ st >= 500) /\ att < MAX_RETRIES

\* the Error thrown by fetchWithBackoff for a response it does not retry
fetchError(st, url) ==
    IF st = 401 \/ st = 403
      THEN [message |-> <<"[","B","G","G","]"," ","A","u","t","h"," ","f","a","i","l","e","d"," ","(">>
                          \o StatusChars(st) \o <<")"," ">> \o url,
            statusCode |-> 0]
      ELSE [message |-> <<"[","B","G","G","]"," ","R","e","q","u","e","s","t"," ","f","a","i","l","e","d",":"," ">>
                          \o StatusChars(st) \o <<" ">> \o url,
            statusCode |-> 0]

NoError == [message |-> <<>>, statusCode |-> 0]

\* await sleep(800 + Math.random() * 400)
FetchCourtesy ==
    /\ fpc = "call"
    /\ courtesy' = courtesy + 1
    /\ fpc' = "fetch"
    /\ UNCHANGED <<event, catalog, svars, uvars, tvars, rvars, dvars, pvars, wk, lvars,
                   furl, attempt, requests, backoffs, lastStatus, ferr, delays, mvars>>

\* const res = await fetch(url, ...) and the branches on the response
FetchRequest ==
    /\ fpc = "fetch"
    /\ \E st \in Statuses :
        /\ requests' = requests + 1
        /\ lastStatus' = st
        /\ IF ok(st)
             THEN fpc' = "returned" /\ ferr' = ferr
             ELSE IF ShouldRetry(st, attempt)
                    THEN fpc' = "backoff" /\ ferr' = ferr
                    ELSE fpc' = "thrown" /\ ferr' = fetchError(st, furl)
    /\ UNCHANGED <<event, catalog, svars, uvars, tvars, rvars, dvars, pvars, wk, lvars,
                   furl, attempt, courtesy, backoffs, delays, mvars>>

BASE_DELAY_MS == 2000

\* Math.random() * 1_000, in whole milliseconds: the ends of [0, 1000) and a
\* value between
Jitters == {0, 417, 999}

\* a delay that grows by BASE_DELAY_MS with each retry
backoffDelay_linear(att, jitter) == BASE_DELAY_MS * (att + 1) + jitter

\* const delay = BASE_DELAY_MS * 2 ** attempt + Math.random() * 1_000
backoffDelay(att, jitter) == BASE_DELAY_MS * 2 ^ att + jitter

\* await sleep(delay); return fetchWithBackoff(url, attempt + 1)
FetchBackoff ==
    /\ fpc = "backoff"
    /\ \E jitter \in Jitters : delays' = Append(delays, backoffDelay(attempt, jitter))
    /\ backoffs' = backoffs + 1
    /\ attempt' = attempt + 1
    /\ fpc' = "call"
    /\ UNCHANGED <<event, catalog, svars, uvars, tvars, rvars, dvars, pvars, wk, lvars,
                   furl, requests, courtesy, lastStatus, ferr, mvars>>

(***************************************************************************)
(* The single-loop syncImages (the variant with the circuit breaker)       *)
(***************************************************************************)
MAX_401_ERRORS == 10

\* What the external services answer while one item is processed:
\*   bgg  "match" (a detail with an image), "none", or "fail" with the
\*        status bggStatus of the response that makes fetchWithBackoff throw
\*   dl   status of the image download
\*   up   "ok", "noid" (no image id in the answer) or "fail" with the
\*        status upStatus of the rejected createCatalogImage call
Responses ==
    << [bgg |-> "match", bggStatus |-> 200, dl |-> 200, up |-> "ok",   upStatus |-> 200],
       [bgg |-> "none",  bggStatus |-> 200, dl |-> 200, up |-> "ok",   upStatus |-> 200],
       [bgg |-> "fail",  bggStatus |-> 401, dl |-> 200, up |-> "ok",   upStatus |-> 200],
       [bgg |-> "fail",  bggStatus |-> 403, dl |-> 200, up |-> "ok",   upStatus |-> 200],
       [bgg |-> "fail",  bggStatus |-> 500, dl |-> 200, up |-> "ok",   upStatus |-> 200],
       [bgg |-> "fail",  bggStatus |-> 429, dl |-> 200, up |-> "ok",   upStatus |-> 200],
       [bgg |-> "match", bggStatus |-> 200, dl |-> 404, up |-> "ok",   upStatus |-> 200],
       [bgg |-> "match", bggStatus |-> 200, dl |-> 200, up |-> "fail", upStatus |-> 401],
       [bgg |-> "match", bggStatus |-> 200, dl |-> 200, up |-> "fail", upStatus |-> 500],
       [bgg |-> "match", bggStatus |-> 200, dl |-> 200, up |-> "noid", upStatus |-> 200],
       [bgg |-> "match", bggStatus |-> 200, dl |-> 401, up |-> "ok",   upStatus |-> 200] >>

\* responses by object id: kind kIn for the ids a..b, kind kOut elsewhere
EnvOf(n, a, b, kIn, kOut) ==
    [k \in 1..n |-> IF a <= k /\ k <= b THEN Responses[kIn] ELSE Responses[kOut]]

Returned(v) == [thrown |-> FALSE, value |-> v, err |-> NoError]
Thrown(e) == [thrown |-> TRUE, value |-> "none", err |-> e]

\* await findBestMatch(item.name, ...) as the single loop sees it
matchOutcome(item, e) ==
    CASE e.bgg = "match" -> Returned("match")
      [] e.bgg = "none"  -> Returned("none")
      [] e.bgg = "fail"  -> Thrown(fetchError(e.bggStatus, SearchUrl(item.name)))

\* await uploadImageToSquareItem(...)
uploadImageToSquareItem(e) ==
    IF ~ok(e.dl)
      THEN Thrown([message |-> <<"F","a","i","l","e","d"," ","t","o"," ","d","o","w","n","l","o","a","d"," ","i","m","a","g","e",":"," ">>
                                 \o StatusChars(e.dl),
                   statusCode |-> 0])
    ELSE IF e.up = "fail"
      THEN Thrown([message |-> <<"R","e","s","p","o","n","s","e"," ","s","t","a","t","u","s"," ","c","o","d","e"," ","w","a","s"," ","n","o","t"," ","o","k",":"," ">>
                                 \o StatusChars(e.upStatus),
                   statusCode |-> e.upStatus])
    ELSE IF e.up = "noid"
      THEN Thrown([message |-> <<"S","q","u","a","r","e"," ","d","i","d"," ","n","o","t"," ","r","e","t","u","r","n"," ","a","n"," ","i","m","a","g","e"," ","I","D">>,
                   statusCode |-> 0])
    ELSE Returned("image")

\* the create-image call of the item step is made and takes effect at the
\* catalog service (it is rejected when up = "fail")
createsImage(item, e) ==
    /\ ~matchOutcome(item, e).thrown /\ matchOutcome(item, e).value = "match"
    /\ ok(e.dl)
    /\ e.up \in {"ok", "noid"}

\* the try block of the item step
tryBody(item, e) ==
    LET match == matchOutcome(item, e)
    IN  IF match.thrown THEN match
        ELSE IF match.value = "none" THEN Returned("no_match")
        ELSE LET up == uploadImageToSquareItem(e)
             IN  IF up.thrown THEN up ELSE Returned("synced")

\* err.message?.includes("401") || err.statusCode === 401
is401(err) == includes(err.message, <<"4","0","1">>) \/ err.statusCode = 401

\* the catch missing: a throwing body rejects the step
syncItemStep_uncaught(item, e) ==
    LET body == tryBody(item, e)
    IN  [objectId |-> item.objectId, name |-> item.name,
         status |-> IF body.thrown THEN "error" ELSE body.value,
         error |-> body.err.message, _is401 |-> FALSE, rejected |-> body.thrown]

\* the result of step.run(`sync-item-${item.objectId}`, ...): try and catch
syncItemStep(item, e) ==
    LET body == tryBody(item, e)
    IN  IF body.thrown
          THEN [objectId |-> item.objectId, name |-> item.name, status |-> "error",
                error |-> body.err.message, _is401 |-> is401(body.err), rejected |-> FALSE]
          ELSE [objectId |-> item.objectId, name |-> item.name, status |-> body.value,
                error |-> <<>>, _is401 |-> FALSE, rejected |-> FALSE]

\* the loop left one authentication error later
breakerOpen_late(count) == count > MAX_401_ERRORS

\* if (authErrorCount >= MAX_401_ERRORS) break
breakerOpen(count) == count >= MAX_401_ERRORS

CountStatus(rs, st) == Cardinality({k \in 1..Len(rs) : rs[k].status = st})

\* step fetch-square-catalog and the run-level filters
LoopFetch ==
    /\ lpc = "start"
    /\ LET c == getSquareClient(client, accessToken)
       IN  IF c.thrown
             THEN /\ lpc' = "failed"
                  /\ UNCHANGED <<lItems, client, catalogRequests>>
             ELSE /\ lItems' = FilterItems(listCatalogItems(catalog), event.force,
                                           event.filterName)
                  /\ lpc' = "loop"
                  /\ client' = c.client
                  /\ catalogRequests' = catalogRequests + listRequests
    /\ UNCHANGED <<event, catalog, categories, accessToken, uvars, tvars, rvars, dvars, pvars,
                   wk, idx, authErrorCount, results, lret, env, fvars, mvars>>

\* one iteration of for (const item of items); a step whose function
\* throws rejects the await and ends the handler
LoopItem ==
    /\ lpc = "loop"
    /\ idx < Len(lItems)
    /\ ~breakerOpen(authErrorCount)
    /\ LET item == lItems[idx + 1]
           result == syncItemStep(item, env[item.objectId])
       IN  /\ IF result.rejected
                THEN /\ lpc' = "failed"
                     /\ UNCHANGED <<idx, authErrorCount, results>>
                ELSE /\ authErrorCount' = IF result._is401 THEN authErrorCount + 1
                                          ELSE authErrorCount
                     /\ results' = Append(results, result)
                     /\ idx' = idx + 1
                     /\ lpc' = lpc
           /\ catalog' = IF createsImage(item, env[item.objectId])
                           THEN createCatalogImage(catalog, item.objectId,
                                    idempotencyKey(item.objectId, <<runNo, idx>>))
                           ELSE catalog
    /\ UNCHANGED <<event, svars, uvars, tvars, rvars, dvars, pvars, wk, lItems, lret, env, fvars, mvars>>

\* leaving the loop (exhausted or break) and the summary
LoopReturn ==
    /\ lpc = "loop"
    /\ idx >= Len(lItems) \/ breakerOpen(authErrorCount)
    /\ lret' = [aborted |-> authErrorCount >= MAX_401_ERRORS,
                authErrorCount |-> authErrorCount,
                synced |-> CountStatus(results, "synced"),
                noMatch |-> CountStatus(results, "no_match"),
                errored |-> CountStatus(results, "error"),
                nResults |-> Len(results)]
    /\ lpc' = "done"
    /\ UNCHANGED <<event, catalog, svars, uvars, tvars, rvars, dvars, pvars, wk, lItems, idx, authErrorCount,
                   results, env, fvars, mvars>>

(***************************************************************************)
(* sync-images.ts: the worker syncSingleItem under the job platform        *)
(***************************************************************************)
RETRIES == 2

CONCURRENCY_LIMIT == 3

WorkItems == 1..MaxWorkItems

Executing == {i \in DOMAIN wk : wk[i].pc \in {"search", "upload"}}

\* one retry more than configured
canRetry_extra(w) == w.retries <= RETRIES

\* retries: 2 -- a failed invocation is followed by another one while the
\* run has retries left
canRetry(w) == w.retries < RETRIES

\* a step function threw: the invocation fails
stepFailed(w, step) ==
    IF canRetry(w)
      THEN [w EXCEPT !.pc = "retry_wait", !.resume = step, !.failures = @ + 1]
      ELSE [w EXCEPT !.pc = "error", !.failures = @ + 1]

\* no slot of the concurrency limit is taken into account
slotFree_unlimited == TRUE

\* concurrency: { limit: 3 }
slotFree == Cardinality(Executing) < CONCURRENCY_LIMIT

\* every invocation starting again at the first step
resumeStep_restart(w) == "search"

\* the first step.run without a memoised result: the one that failed
resumeStep(w) == w.resume

\* a detail without an image taken as a match
isMatch_anyDetail(o) == o \in {"match", "noimage"}

\* if (!result || !result.imageUrl) return null
isMatch(o) == o = "match"

\* the run after step "search-bgg" ended with o: a throw fails the step, a
\* match goes on to the upload, anything else returns no_match
afterSearch(w0, o) ==
    LET w == [w0 EXCEPT !.searches = @ + 1]
    IN  IF o = "throw" THEN stepFailed(w, "search")
        ELSE IF isMatch(o) THEN [w EXCEPT !.match = o, !.pc = "upload"]
        ELSE [w EXCEPT !.match = o, !.pc = "no_match"]

\* the platform starts the run of an item within the concurrency limit
WorkerStart(i) ==
    /\ i \in runs
    /\ wk[i].pc = "queued"
    /\ slotFree
    /\ wk' = [wk EXCEPT ![i].pc = "search"]
    /\ UNCHANGED <<event, catalog, svars, uvars, tvars, rvars, dvars, pvars, lvars, fvars, mvars>>

\* step "search-bgg": findBestMatch returns a detail with an image, a detail
\* without one, null, or throws
WorkerSearch(i) ==
    /\ wk[i].pc = "search"
    /\ \E o \in {"match", "noimage", "none", "throw"} :
         wk' = [wk EXCEPT ![i] = afterSearch(wk[i], o)]
    /\ UNCHANGED <<event, catalog, svars, uvars, tvars, rvars, dvars, pvars, lvars, fvars, mvars>>

\* what one uploadImageToSquareItem call can meet: the asset download is
\* refused ("download"); create-image is rejected ("throw"); create-image
\* takes effect and its answer is lost ("lost") or carries no image id
\* ("noid"); create-image takes effect and answers with the id ("ok")
UploadOutcomes == {"ok", "noid", "lost", "throw", "download"}

\* the create-image call reached the catalog service and took effect
takesEffect(o) == o \in {"ok", "noid", "lost"}

\* Date.now() of the upload attempt: attempts of one run are separated by the
\* platform's retry delay, runs of the dispatcher follow one another
now(i) == <<runNo, wk[i].uploads + 1>>

\* step "upload-to-square": uploadImageToSquareItem returns the image id, or
\* throws (no client, download or create-image rejected, answer lost, or no
\* image id in the answer); the handler then returns synced
WorkerUpload(i) ==
    /\ wk[i].pc = "upload"
    /\ LET c == getSquareClient(client, accessToken)
           w == [wk[i] EXCEPT !.uploads = @ + 1]
       IN  IF c.thrown
             THEN /\ wk' = [wk EXCEPT ![i] = stepFailed(w, "upload")]
                  /\ UNCHANGED <<catalog, client>>
             ELSE \E o \in UploadOutcomes :
                    /\ wk' = [wk EXCEPT ![i] =
                          IF o = "ok" THEN [w EXCEPT !.pc = "synced", !.imageId = "image"]
                          ELSE stepFailed(w, "upload")]
                    /\ catalog' = IF takesEffect(o)
                                    THEN createCatalogImage(catalog, i,
                                                            idempotencyKey(i, now(i)))
                                    ELSE catalog
                    /\ client' = c.client
    /\ UNCHANGED <<event, categories, accessToken, catalogRequests, uvars, tvars, rvars, dvars,
                   pvars, lvars, fvars, mvars>>

\* the platform invokes the handler again; memoised steps are not re-run
WorkerRetry(i) ==
    /\ wk[i].pc = "retry_wait"
    /\ slotFree
    /\ wk' = [wk EXCEPT ![i].pc = resumeStep(wk[i]), ![i].retries = @ + 1]
    /\ UNCHANGED <<event, catalog, svars, uvars, tvars, rvars, dvars, pvars, lvars, fvars, mvars>>

(***************************************************************************)
(* sync-images.ts: dispatcher runs in flight together and their item runs  *)
(***************************************************************************)
\* the two sync/images.requested events received one right after the other
SyncRunIds == {1, 2}

\* Date.now() at an upload, in milliseconds: two uploads may fall into the
\* same millisecond or into different ones
UploadTimes == {1, 2}

StartedRun == [pc |-> "start", items |-> <<>>, bi |-> 0]

\* the item runs that hold one of the concurrency slots
RunningItemRuns == {j \in 1..Len(itemRuns) : itemRuns[j].pc \in {"search", "upload"}}

\* step fetch-square-catalog and the run-level filters of dispatcher run r
RaceFetch(r) ==
    /\ syncRuns[r].pc = "start"
    /\ LET c == getSquareClient(client, accessToken)
       IN  IF c.thrown
             THEN /\ syncRuns' = [syncRuns EXCEPT ![r].pc = "failed"]
                  /\ UNCHANGED <<client, catalogRequests>>
             ELSE /\ syncRuns' = [syncRuns EXCEPT
                        ![r].items = FilterItems(listCatalogItems(catalog),
                                                 event.force, event.filterName),
                        ![r].pc = "batch"]
                  /\ client' = c.client
                  /\ catalogRequests' = catalogRequests + listRequests
    /\ UNCHANGED <<event, catalog, categories, accessToken, uvars, tvars, dvars, pvars,
                   wk, lvars, fvars, mvars, itemRuns>>

\* step dispatch-batch-i of dispatcher run r; the platform creates a run of
\* sync-single-item for every event of the batch
RaceSendBatch(r) ==
    /\ syncRuns[r].pc = "batch"
    /\ syncRuns[r].bi < Len(syncRuns[r].items)
    /\ LET batch == BatchAt(syncRuns[r].items, syncRuns[r].bi)
       IN  itemRuns' = itemRuns \o
              [k \in 1..Len(batch) |->
                  [by |-> r, item |-> ItemEvent(batch[k]).data.item, pc |-> "queued"]]
    /\ syncRuns' = [syncRuns EXCEPT ![r].bi = @ + BATCH_SIZE]
    /\ UNCHANGED <<event, catalog, svars, uvars, tvars, dvars, pvars, wk, lvars, fvars,
                   mvars>>

RaceReturn(r) ==
    /\ syncRuns[r].pc = "batch"
    /\ ~(syncRuns[r].bi < Len(syncRuns[r].items))
    /\ syncRuns' = [syncRuns EXCEPT ![r].pc = "done"]
    /\ UNCHANGED <<event, catalog, svars, uvars, tvars, dvars, pvars, wk, lvars, fvars,
                   mvars, itemRuns>>

\* the platform starts item run j when one of the concurrency slots is free
ItemRunStart(j) ==
    /\ itemRuns[j].pc = "queued"
    /\ Cardinality(RunningItemRuns) < CONCURRENCY_LIMIT
    /\ itemRuns' = [itemRuns EXCEPT ![j].pc = "search"]
    /\ UNCHANGED <<event, catalog, svars, uvars, tvars, dvars, pvars, wk, lvars, fvars,
                   mvars, syncRuns>>

\* step "search-bgg" of item run j: a match with an image, or null
ItemRunSearch(j) ==
    /\ itemRuns[j].pc = "search"
    /\ \E found \in BOOLEAN :
          itemRuns' = [itemRuns EXCEPT ![j].pc = IF found THEN "upload" ELSE "no_match"]
    /\ UNCHANGED <<event, catalog, svars, uvars, tvars, dvars, pvars, wk, lvars, fvars,
                   mvars, syncRuns>>

\* step "upload-to-square" of item run j, the upload succeeding
ItemRunUpload(j) ==
    /\ itemRuns[j].pc = "upload"
    /\ \E t \in UploadTimes :
          catalog' = createCatalogImage(catalog, itemRuns[j].item.objectId,
                        idempotencyKey(itemRuns[j].item.objectId, t))
    /\ itemRuns' = [itemRuns EXCEPT ![j].pc = "synced"]
    /\ UNCHANGED <<event, svars, uvars, tvars, dvars, pvars, wk, lvars, fvars, mvars,
                   syncRuns>>

(***************************************************************************)
(* bgg.ts: findBestMatch, the cleaning of the looked-up title              *)
(***************************************************************************)
\* \s of the regular expressions, over the characters of the model
isSpace(c) == c = " "

\* first index of the run of spaces that ends right before index i
RECURSIVE spacesFrom(_, _)
spacesFrom(s, i) == IF i > 1 /\ isSpace(s[i - 1]) THEN spacesFrom(s, i - 1) ELSE i

\* last index of the run of spaces that starts right after index j
RECURSIVE spacesUpTo(_, _)
spacesUpTo(s, j) ==
    IF j < Len(s) /\ isSpace(s[j + 1]) THEN spacesUpTo(s, j + 1) ELSE j

Min(S) == CHOOSE x \in S : \A y \in S : x <= y

\* .replace(/\s*\(.*?\)\s*/g, " "): every "(" up to the nearest ")" with the
\* spaces around it becomes one space, scanning from the left
RECURSIVE removeParentheticals(_)
removeParentheticals(s) ==
    LET opens == {i \in 1..Len(s) :
                    s[i] = "(" /\ \E j \in (i + 1)..Len(s) : s[j] = ")"}
    IN  IF opens = {} THEN s
        ELSE LET i == Min(opens)
                 j == Min({j \in (i + 1)..Len(s) : s[j] = ")"})
             IN  SubSeq(s, 1, spacesFrom(s, i) - 1) \o <<" ">>
                   \o removeParentheticals(SubSeq(s, spacesUpTo(s, j) + 1, Len(s)))

BoardGame == <<"b","o","a","r","d"," ","g","a","m","e">>

\* the literal "board game" of a /i expression matches at index i
boardGameAt(s, i) ==
    /\ i >= 1
    /\ i + Len(BoardGame) - 1 <= Len(s)
    /\ \A k \in 1..Len(BoardGame) : Lower(s[i + k - 1]) = BoardGame[k]

\* .replace(/\s*-\s*board game\s*/i, ""): the first match only
removeDashBoardGame(s) ==
    LET dashes == {d \in 1..Len(s) :
                     s[d] = "-" /\ boardGameAt(s, spacesUpTo(s, d) + 1)}
    IN  IF dashes = {} THEN s
        ELSE LET d == Min(dashes)
                 e == spacesUpTo(s, d) + Len(BoardGame)
             IN  SubSeq(s, 1, spacesFrom(s, d) - 1)
                   \o SubSeq(s, spacesUpTo(s, e) + 1, Len(s))

\* .replace(/\s*board game\s*/i, ""): the first match only
removeBoardGame(s) ==
    LET starts == {b \in 1..Len(s) : boardGameAt(s, b)}
    IN  IF starts = {} THEN s
        ELSE LET b == Min(starts)
                 e == b + Len(BoardGame) - 1
             IN  SubSeq(s, 1, spacesFrom(s, b) - 1)
                   \o SubSeq(s, spacesUpTo(s, e) + 1, Len(s))

\* const cleanTitle = upcResult.title.replace(..).replace(..).replace(..).trim()
cleanTitle(title) ==
    trim(removeBoardGame(removeDashBoardGame(removeParentheticals(title))))

(***************************************************************************)
(* bgg.ts: searchAndScore and findBestMatch                                *)
(***************************************************************************)
\* null in place of a BggThingDetail
NoDetail == [found |-> FALSE, bggId |-> 0, imageUrl |-> <<>>, publishers |-> <<>>]

\* fetchBggThing(bggId) as the metadata service answers it
fetchBggThing(bggId, details) ==
    IF bggId \in DOMAIN details THEN details[bggId] ELSE NoDetail

\* truthiness of an optional number: undefined (<<>>) and 0 are falsy
truthyNumber(n) == n # <<>> /\ n[1] # 0

\* the score given to search result r
score(r, name, hints) ==
    (IF toLowerCase(r.name) = toLowerCase(name) THEN 10
     ELSE IF includes(toLowerCase(r.name), toLowerCase(name)) THEN 5
     ELSE 0)
    + (IF truthyNumber(hints.year) /\ r.yearPublished = hints.year THEN 8 ELSE 0)

\* ranking by the score alone
compare_scoreOnly(a, b) == b.score - a.score

\* ties left to the larger bggId
compare_tiesDescending(a, b) ==
    IF b.score - a.score # 0 THEN b.score - a.score ELSE b.bggId - a.bggId

\* (a, b) => b.score - a.score || a.bggId - b.bggId
compare(a, b) ==
    IF b.score - a.score # 0 THEN b.score - a.score ELSE a.bggId - b.bggId

\* scored.sort(compare): a stable sort
RECURSIVE sort(_)
sort(s) ==
    IF s = <<>> THEN <<>>
    ELSE LET t == sort(SubSeq(s, 1, Len(s) - 1))
             x == s[Len(s)]
             k == Cardinality({i \in 1..Len(t) : compare(t[i], x) <= 0})
         IN  SubSeq(t, 1, k) \o <<x>> \o SubSeq(t, k + 1, Len(t))

\* detail.publishers.some((p) => p.toLowerCase().includes(pubLower))
pubMatch(detail, publisher) ==
    \E k \in 1..Len(detail.publishers) :
        includes(toLowerCase(detail.publishers[k]), toLowerCase(publisher))

\* the first loop of searchAndScore over the given candidates: the ids
\* fetched and the detail returned (NoDetail when the loop falls through)
RECURSIVE verifyTop(_, _, _)
verifyTop(cands, hints, details) ==
    IF cands = <<>> THEN [fetched |-> <<>>, result |-> NoDetail]
    ELSE LET id == Head(cands).bggId
             detail == fetchBggThing(id, details)
             rest == verifyTop(Tail(cands), hints, details)
         IN  IF ~detail.found \/ detail.imageUrl = <<>>
               THEN [fetched |-> <<id>> \o rest.fetched, result |-> rest.result]
             ELSE IF hints.publisher # <<>> /\ ~pubMatch(detail, hints.publisher)
               THEN [fetched |-> <<id>> \o rest.fetched, result |-> rest.result]
             ELSE [fetched |-> <<id>>, result |-> detail]

\* any detail record taken for one with an image
truthyImageUrl_anyDetail(detail) == detail.found

\* detail?.imageUrl is truthy: there is a detail and its image URL is
\* neither null nor empty
truthyImageUrl(detail) == detail.found /\ detail.imageUrl # <<>>

\* the fallback loop of searchAndScore over the given candidates
RECURSIVE firstWithImage(_, _)
firstWithImage(cands, details) ==
    IF cands = <<>> THEN [fetched |-> <<>>, result |-> NoDetail]
    ELSE LET id == Head(cands).bggId
             detail == fetchBggThing(id, details)
             rest == firstWithImage(Tail(cands), details)
         IN  IF truthyImageUrl(detail)
               THEN [fetched |-> <<id>>, result |-> detail]
             ELSE [fetched |-> <<id>> \o rest.fetched, result |-> rest.result]

\* the fallback going through the candidates after the top 3 only
fallbackCandidates_afterTop(scored) == slice(scored, 3, 5)

\* scored.slice(0, 5)
fallbackCandidates(scored) == slice(scored, 0, 5)

\* searchAndScore(name, hints) against one answer of the search endpoint and
\* the details the service holds: the query sent, whether the search threw,
\* the scored results, the ids in the order scored.sort leaves them, the ids
\* of the details fetched in order, the result
searchAndScore(name, hints, response, details) ==
    LET call == [searchName |-> name, url |-> SearchUrl(name), thrown |-> FALSE,
                 scored |-> <<>>, ranked |-> <<>>, fetched |-> <<>>,
                 result |-> NoDetail]
    IN  IF response.thrown THEN [call EXCEPT !.thrown = TRUE]
        ELSE IF Len(response.items) = 0 THEN call
        ELSE LET scored == [k \in 1..Len(response.items) |->
                              [bggId |-> response.items[k].bggId,
                               name |-> response.items[k].name,
                               yearPublished |-> response.items[k].yearPublished,
                               score |-> score(response.items[k], name, hints)]]
                 sorted == sort(scored)
                 top == verifyTop(slice(sorted, 0, 3), hints, details)
                 fallback == firstWithImage(fallbackCandidates(sorted), details)
                 ranked == [k \in 1..Len(sorted) |-> sorted[k].bggId]
             IN  IF top.result.found
                   THEN [call EXCEPT !.scored = scored, !.ranked = ranked,
                                     !.fetched = top.fetched,
                                     !.result = top.result]
                   ELSE [call EXCEPT !.scored = scored, !.ranked = ranked,
                                     !.fetched = top.fetched \o fallback.fetched,
                                     !.result = fallback.result]

\* the second search made whenever the first found nothing
needsFallback_always(found, name, productName) == ~found

\* if (!match && searchName !== productName)
needsFallback(found, name, productName) == ~found /\ name # productName

\* null, the answer of lookupUpc that carries no title
NoUpcResult == [thrown |-> FALSE, found |-> FALSE, title |-> <<>>]

\* lookupUpc without its try/catch: a failed request and an unparsable body
\* are raised to the caller
lookupUpc_uncaught(res) ==
    IF res.network \/ (ok(res.status) /\ res.body = "unparsable")
      THEN [NoUpcResult EXCEPT !.thrown = TRUE]
    ELSE IF ~ok(res.status) THEN NoUpcResult
    ELSE IF res.body # "items" THEN NoUpcResult
    ELSE [thrown |-> FALSE, found |-> TRUE, title |-> res.title]

\* lookupUpc: the whole body is inside try/catch.  res.network: fetch rejects;
\* res.body: what res.json() gives ("unparsable": it rejects; "noItems": no
\* items key; "notArray"; "empty": items = []; "items": items[0] exists, its
\* title being res.title, the empty string when it has none (item.title ?? "")
lookupUpc(res) ==
    IF res.network THEN NoUpcResult                       \* catch
    ELSE IF ~ok(res.status) THEN NoUpcResult
    ELSE IF res.body = "unparsable" THEN NoUpcResult      \* catch
    ELSE IF res.body \in {"noItems", "notArray", "empty"} THEN NoUpcResult
    ELSE [thrown |-> FALSE, found |-> TRUE, title |-> res.title]

\* lines 207-226: the identifier lookup (lookupUpc answers null or a title)
\* and the choice of searchName
MatchLookup ==
    /\ mpc = "call"
    /\ IF minput.hints.upc # <<>>
         THEN LET upcResult == lookupUpc(minput.upcResponse)
              IN  /\ lookups' = lookups + 1
                  /\ searchName' = IF upcResult.found /\ upcResult.title # <<>>
                                     THEN cleanTitle(upcResult.title)
                                     ELSE minput.productName
                  /\ mpc' = IF upcResult.thrown THEN "thrown" ELSE "first"
         ELSE /\ lookups' = lookups
              /\ searchName' = minput.productName
              /\ mpc' = "first"
    /\ UNCHANGED <<event, catalog, svars, uvars, tvars, rvars, dvars, pvars, wk, lvars, fvars,
                   minput, calls, bestMatch, mret>>

\* let match = await searchAndScore(searchName, hints)
MatchFirst ==
    /\ mpc = "first"
    /\ LET call == searchAndScore(searchName, minput.hints, minput.responses[1],
                                  minput.details)
       IN  /\ calls' = Append(calls, call)
           /\ bestMatch' = call.result
           /\ mpc' = IF call.thrown THEN "thrown"
                     ELSE IF needsFallback(call.result.found, searchName,
                                           minput.productName)
                       THEN "second" ELSE "return"
    /\ UNCHANGED <<event, catalog, svars, uvars, tvars, rvars, dvars, pvars, wk, lvars, fvars,
                   minput, searchName, lookups, mret>>

\* match = await searchAndScore(productName, hints)
MatchSecond ==
    /\ mpc = "second"
    /\ LET call == searchAndScore(minput.productName, minput.hints,
                                  minput.responses[2], minput.details)
       IN  /\ calls' = Append(calls, call)
           /\ bestMatch' = call.result
           /\ mpc' = IF call.thrown THEN "thrown" ELSE "return"
    /\ UNCHANGED <<event, catalog, svars, uvars, tvars, rvars, dvars, pvars, wk, lvars, fvars,
                   minput, searchName, lookups, mret>>

\* return match
MatchReturn ==
    /\ mpc = "return"
    /\ mret' = bestMatch
    /\ mpc' = "done"
    /\ UNCHANGED <<event, catalog, svars, uvars, tvars, rvars, dvars, pvars, wk, lvars, fvars,
                   minput, searchName, lookups, calls, bestMatch>>

\* one execution of searchAndScore(productName, hints) on its own; the
\* executions of one behaviour are answered with minput.responses in turn
ScoreExecution ==
    /\ mpc = "score"
    /\ LET call == searchAndScore(minput.productName, minput.hints,
                                  minput.responses[Len(calls) + 1], minput.details)
       IN  /\ calls' = Append(calls, call)
           /\ bestMatch' = call.result
    /\ searchName' = minput.productName
    /\ mpc' = IF Len(calls) + 1 = Len(minput.responses) THEN "done" ELSE "score"
    /\ UNCHANGED <<event, catalog, svars, uvars, tvars, rvars, dvars, pvars, wk, lvars, fvars,
                   minput, lookups, mret>>

\* step "search-bgg" calls findBestMatch(item.name, {.., upc: item.meta.upc})
SearchBggCall(i) ==
    /\ wk[i].pc = "search"
    /\ mpc = "idle"
    /\ mpc' = "call"
    /\ searchName' = <<>> /\ lookups' = 0 /\ calls' = <<>>
    /\ bestMatch' = NoDetail /\ mret' = NoDetail
    /\ UNCHANGED <<event, catalog, svars, uvars, tvars, rvars, dvars, pvars, wk, lvars, fvars,
                   minput>>

\* a null result is passed on to the upload
stepOutcome_nullMatches(pc, result) ==
    IF pc = "thrown" THEN "throw"
    ELSE IF result.found /\ result.imageUrl = <<>> THEN "noimage"
    ELSE "match"

\* what the step makes of the end of findBestMatch:
\* if (!result || !result.imageUrl) return null; return result
stepOutcome(pc, result) ==
    IF pc = "thrown" THEN "throw"
    ELSE IF ~result.found THEN "none"
    ELSE IF result.imageUrl = <<>> THEN "noimage"
    ELSE "match"

\* findBestMatch has returned or thrown inside step "search-bgg"
SearchBggReturn(i) ==
    /\ wk[i].pc = "search"
    /\ mpc \in {"done", "thrown"}
    /\ wk' = [wk EXCEPT ![i] = afterSearch(wk[i], stepOutcome(mpc, mret))]
    /\ mpc' = "idle"
    /\ UNCHANGED <<event, catalog, svars, uvars, tvars, rvars, dvars, pvars, lvars, fvars,
                   minput, searchName, lookups, calls, bestMatch, mret>>

(***************************************************************************)
(* Answers of the metadata service and of the identifier lookup            *)
(***************************************************************************)
ProductName == <<"c","a">>

CandidateKinds ==
    << [name |-> <<"C","a">>,     yearPublished |-> <<1995>>],
       [name |-> <<"c","A","t">>, yearPublished |-> <<1995>>],
       [name |-> <<"a","z">>,     yearPublished |-> <<2000>>],
       [name |-> <<"C","A">>,     yearPublished |-> <<>>],
       [name |-> <<"c","a","t">>, yearPublished |-> <<0>>],
       [name |-> <<"Z">>,         yearPublished |-> <<1995>>] >>

Candidate(id) ==
    [bggId |-> id,
     name |-> CandidateKinds[(id % Len(CandidateKinds)) + 1].name,
     yearPublished |-> CandidateKinds[(id % Len(CandidateKinds)) + 1].yearPublished]

BggIds == 1..(MaxResults + 1)

\* a result list of n entries, in an order that is not the order of the ids
ResultsOf(n, off) ==
    [k \in 1..n |-> Candidate(((k * 3 + off) % (MaxResults + 1)) + 1)]

SearchResponses ==
    {[thrown |-> FALSE, items |-> ResultsOf(n, off)] :
        n \in 0..MaxResults, off \in 0..2}

\* the same results in other orders: reversed, rotated by one, first two swapped
Reordered(items) ==
    LET n == Len(items)
    IN  { [k \in 1..n |-> items[n + 1 - k]],
          [k \in 1..n |-> items[(k % n) + 1]],
          [k \in 1..n |-> IF k = 1 /\ n >= 2 THEN items[2]
                          ELSE IF k = 2 THEN items[1] ELSE items[k]] }

DetailKinds == {"null", "noimage", "pubA", "pubB"}

DetailOf(id, kind) ==
    CASE kind = "null" -> NoDetail
      [] kind = "noimage" ->
           [found |-> TRUE, bggId |-> id, imageUrl |-> <<>>,
            publishers |-> << <<"A","Z"," ","G">> >>]
      [] kind = "pubA" ->
           [found |-> TRUE, bggId |-> id, imageUrl |-> <<"u">>,
            publishers |-> << <<"t">>, <<"A","Z"," ","G">> >>]
      [] kind = "pubB" ->
           [found |-> TRUE, bggId |-> id, imageUrl |-> <<"u">>,
            publishers |-> << <<"Z">> >>]

\* details of kind kIn for the ids a .. b-1 and of kind kOut for the others
DetailsOf(a, b, kIn, kOut) ==
    [id \in BggIds |-> DetailOf(id, IF a <= id /\ id < b THEN kIn ELSE kOut)]

Hints == [year : {<<>>, <<0>>, <<1995>>}, publisher : {<<>>, <<"a","z">>},
          upc : {<<>>}]

\* what the identifier-lookup service can answer
UpcResponse(network, status, body, title) ==
    [network |-> network, status |-> status, body |-> body, title |-> title]

UpcFailures ==
    {UpcResponse(TRUE, 0, "none", <<>>), UpcResponse(FALSE, 404, "none", <<>>),
     UpcResponse(FALSE, 429, "items", <<"c", "a">>),
     UpcResponse(FALSE, 200, "unparsable", <<>>),
     UpcResponse(FALSE, 200, "noItems", <<>>),
     UpcResponse(FALSE, 200, "notArray", <<>>),
     UpcResponse(FALSE, 200, "empty", <<>>)}

Titles ==
    { <<>>,
      <<"c","a">>,
      <<"C","a"," ","-"," ","B","o","a","r","d"," ","G","a","m","e">>,
      <<"C","a","t"," ","B","o","a","r","d"," ","G","a","m","e"," ","(","2","n","d",")">>,
      <<"B","o","a","r","d"," ","G","a","m","e">>,
      <<"(","2","n","d",")">>,
      <<"C","a"," ","B","o","a","r","d"," ","G","a","m","e"," ","-"," ",
        "C","a","t"," ","B","o","a","r","d"," ","G","a","m","e">> }

NoRequest == [body |-> "none"]

NoReply == [ok |-> FALSE, status |-> 0]

(***************************************************************************)
(* api/trigger-sync/route.ts: POST                                         *)
(***************************************************************************)
\* A request body: no body at all, text that is no JSON, the JSON value
\* null, a JSON scalar, or a JSON object; force and filterName are the
\* object's members, <<>> when the member is absent.
Body(kind, force, filterName) ==
    [kind |-> kind, force |-> force, filterName |-> filterName]

EmptyObject == Body("object", <<>>, <<>>)

Bodies ==
    {Body(k, <<>>, <<>>) : k \in {"missing", "unparsable", "null", "scalar"}}
      \cup {Body("object", f, n) : f \in {<<>>, <<TRUE>>, <<FALSE>>},
                                    n \in {<<>>, << <<"c","a">> >>}}

\* a request, and whether inngest.send will throw (no event key, platform
\* unreachable)
Requests == [body : Bodies, send : {"ok", "throws"}]

\* req.json() rejects
jsonRejects(body) == body.kind \in {"missing", "unparsable"}

\* await req.json() without the catch: a rejection reaches the outer catch
parseBody_uncaught(body) ==
    IF jsonRejects(body) THEN [thrown |-> TRUE, value |-> EmptyObject]
    ELSE [thrown |-> FALSE, value |-> body]

\* await req.json().catch(() => ({}))
parseBody(body) ==
    IF jsonRejects(body) THEN [thrown |-> FALSE, value |-> EmptyObject]
    ELSE [thrown |-> FALSE, value |-> body]

\* data: { force: body.force ?? false, filterName: body.filterName ?? undefined };
\* reading a member of null throws a TypeError
eventData(body) ==
    IF body.kind = "null" THEN [thrown |-> TRUE, data |-> [force |-> FALSE, filterName |-> <<>>]]
    ELSE [thrown |-> FALSE,
          data |-> [force |-> IF body.force = <<>> THEN FALSE ELSE body.force[1],
                    filterName |-> IF body.filterName = <<>> THEN <<>>
                                   ELSE body.filterName[1]]]

\* POST: parse, send sync/images.requested, answer; the platform then starts
\* a run of the dispatcher for the event
TriggerPost ==
    /\ request # NoRequest
    /\ reply = NoReply
    /\ LET parsed == parseBody(request.body)
           ev == eventData(parsed.value)
       IN  IF parsed.thrown \/ ev.thrown \/ request.send = "throws"
             THEN /\ reply' = [ok |-> FALSE, status |-> 500]
                  /\ UNCHANGED <<event, dpc>>
             ELSE /\ reply' = [ok |-> TRUE, status |-> 200]
                  /\ event' = ev.data
                  /\ dpc' = "start"
    /\ UNCHANGED <<catalog, svars, uvars, request, dItems, bi, sent, dret, pvars, wk,
                   lvars, fvars, mvars, rvars>>

(***************************************************************************)
(* Specifications                                                          *)
(***************************************************************************)
IdleDispatcher ==
    dpc = "idle" /\ dItems = <<>> /\ bi = 0 /\ sent = <<>> /\ dret = -1

IdlePlatform ==
    /\ ingested = 0 /\ runs = {} /\ cancelled = FALSE /\ runNo = 1
    /\ syncedEarlier = {}

IdleWorkers == wk = <<>>

IdleLoop ==
    /\ lpc = "idle" /\ lItems = <<>> /\ idx = 0 /\ authErrorCount = 0
    /\ results = <<>> /\ lret = "none" /\ env = <<>>

IdleFetch ==
    /\ fpc = "idle" /\ furl = <<>> /\ attempt = 0 /\ requests = 0
    /\ courtesy = 0 /\ backoffs = 0 /\ lastStatus = 0 /\ ferr = NoError
    /\ delays = <<>>

IdleSquare ==
    /\ categories = Categories /\ accessToken = TRUE /\ client = FALSE
    /\ catalogRequests = 0

\* the client exists: the listing that dispatched the items has built it
WarmSquare ==
    /\ categories = Categories /\ accessToken = TRUE /\ client = TRUE
    /\ catalogRequests = 2

IdleDescription ==
    /\ descPc = "idle" /\ existing = NoObject /\ upserts = 0
    /\ descLog = <<>> /\ edits = 0

IdleTrigger == request = NoRequest /\ reply = NoReply

IdleRace == syncRuns = <<>> /\ itemRuns = <<>>

IdleMatch ==
    /\ minput = <<>> /\ mpc = "idle" /\ searchName = <<>> /\ lookups = 0
    /\ calls = <<>> /\ bestMatch = NoDetail /\ mret = NoDetail

\* The deployment: a sync/images.requested event starts the dispatcher and
\* the platform runs what serve() registered.
InitDeploy ==
    /\ event \in Events
    /\ catalog \in {CatalogOf(n, off) : n \in CatalogSizes, off \in 0..(NKinds - 1)}
    /\ dpc = "start" /\ dItems = <<>> /\ bi = 0 /\ sent = <<>> /\ dret = -1
    /\ served = ServedFunctions
    /\ IdlePlatform /\ IdleWorkers /\ IdleLoop /\ IdleFetch /\ IdleMatch
    /\ IdleSquare /\ IdleDescription /\ IdleTrigger /\ IdleRace

NextDeploy ==
    \/ DispatcherFetch
    \/ DispatcherSendBatch
    \/ DispatcherReturn
    \/ PlatformIngest

SpecDeploy == InitDeploy /\ [][NextDeploy]_vars

\* The deployment over the small catalog listings, the dispatcher and the
\* platform each taking its next step whenever it has one.
InitDeploySmall == InitDeploy /\ Len(catalog) <= SmallItems

FairSpecDeploy ==
    InitDeploySmall /\ [][NextDeploy]_vars /\ WF_vars(NextDeploy)

\* Runs of sync-single-item created for sync/item.process events.
InitWorker ==
    /\ event = [force |-> FALSE, filterName |-> <<>>]
    /\ catalog = <<>>
    /\ IdleDispatcher
    /\ served = {"sync-single-item"}
    /\ ingested = 0
    /\ runs = WorkItems
    /\ cancelled = FALSE /\ runNo = 1 /\ syncedEarlier = {}
    /\ wk = [i \in WorkItems |-> QueuedRun]
    /\ IdleLoop /\ IdleFetch /\ IdleMatch
    /\ WarmSquare /\ IdleDescription /\ IdleTrigger /\ IdleRace

NextWorker ==
    \E i \in WorkItems :
        \/ WorkerStart(i)
        \/ WorkerSearch(i)
        \/ WorkerUpload(i)
        \/ WorkerRetry(i)

SpecWorker == InitWorker /\ [][NextWorker]_vars

\* One run more than the concurrency limit admits at a time.
PoolItems == 1..(CONCURRENCY_LIMIT + 1)

InitPool ==
    /\ event = [force |-> FALSE, filterName |-> <<>>]
    /\ catalog = <<>>
    /\ IdleDispatcher
    /\ served = {"sync-single-item"}
    /\ ingested = 0
    /\ runs = PoolItems
    /\ cancelled = FALSE /\ runNo = 1 /\ syncedEarlier = {}
    /\ wk = [i \in PoolItems |-> QueuedRun]
    /\ IdleLoop /\ IdleFetch /\ IdleMatch
    /\ WarmSquare /\ IdleDescription /\ IdleTrigger /\ IdleRace

NextPool ==
    \E i \in PoolItems :
        \/ WorkerStart(i)
        \/ WorkerSearch(i)
        \/ WorkerUpload(i)
        \/ WorkerRetry(i)

SpecPool == InitPool /\ [][NextPool]_vars

\* Both functions of sync-images.ts run by the platform, and a cancel event
\* that may arrive at any moment of the run.
InitCancel ==
    /\ event \in {e \in Events : e.filterName = <<>>}
    /\ catalog \in {CatalogOf(n, 0) : n \in 0..CancelItems}
    /\ dpc = "start" /\ dItems = <<>> /\ bi = 0 /\ sent = <<>> /\ dret = -1
    /\ served = {"sync-bgg-images-to-square", "sync-single-item"}
    /\ IdlePlatform
    /\ wk = [i \in 1..Len(catalog) |-> QueuedRun]
    /\ IdleLoop /\ IdleFetch /\ IdleMatch
    /\ IdleSquare /\ IdleDescription /\ IdleTrigger /\ IdleRace

NextCancel ==
    \/ DispatcherFetch
    \/ DispatcherSendBatch
    \/ DispatcherReturn
    \/ PlatformIngest
    \/ PlatformCancel
    \/ \E i \in DOMAIN wk :
        \/ WorkerStart(i)
        \/ WorkerSearch(i)
        \/ WorkerUpload(i)
        \/ WorkerRetry(i)

SpecCancel == InitCancel /\ [][NextCancel]_vars

\* One run of the single-loop syncImages.
InitLoop ==
    /\ event \in {e \in Events : e.filterName = <<>>}
    /\ \E n \in (MaxLoopItems - 1)..MaxLoopItems, off \in 0..1 :
        /\ catalog = CatalogOf(n, off)
        /\ \E a \in 1..LoopWindowStarts, b \in 0..n,
              kIn \in 1..Len(Responses), kOut \in {1, 2, 5} :
                env = EnvOf(n, a, b, kIn, kOut)
    /\ lpc = "start" /\ lItems = <<>> /\ idx = 0 /\ authErrorCount = 0
    /\ results = <<>> /\ lret = "none"
    /\ IdleDispatcher /\ served = ServedFunctions /\ IdlePlatform /\ IdleWorkers
    /\ IdleFetch /\ IdleMatch
    /\ IdleSquare /\ IdleDescription /\ IdleTrigger /\ IdleRace

NextLoop ==
    \/ LoopFetch
    \/ LoopItem
    \/ LoopReturn

SpecLoop == InitLoop /\ [][NextLoop]_vars

\* One search or detail operation: a top-level call fetchWithBackoff(url).
InitFetch ==
    /\ event = [force |-> FALSE, filterName |-> <<>>]
    /\ catalog = <<>>
    /\ IdleDispatcher /\ served = ServedFunctions /\ IdlePlatform /\ IdleWorkers
    /\ IdleLoop /\ IdleMatch
    /\ IdleSquare /\ IdleDescription /\ IdleTrigger /\ IdleRace
    /\ fpc = "call" /\ furl \in Urls /\ attempt = 0 /\ requests = 0
    /\ courtesy = 0 /\ backoffs = 0 /\ lastStatus = 0 /\ ferr = NoError
    /\ delays = <<>>

NextFetch ==
    \/ FetchCourtesy
    \/ FetchRequest
    \/ FetchBackoff

SpecFetch == InitFetch /\ [][NextFetch]_vars

\* The same operation with the event loop running every pending
\* continuation: each sleep ends and each request is answered.
FairSpecFetch == InitFetch /\ [][NextFetch]_vars /\ WF_vars(NextFetch)

IdleOthers ==
    /\ event = [force |-> FALSE, filterName |-> <<>>]
    /\ catalog = <<>>
    /\ IdleDispatcher /\ served = ServedFunctions /\ IdlePlatform /\ IdleWorkers
    /\ IdleLoop /\ IdleFetch
    /\ IdleSquare /\ IdleDescription /\ IdleTrigger /\ IdleRace

\* One call findBestMatch(productName, hints) without an identifier: a single
\* searchAndScore over the answers of the metadata service.
InitScore ==
    /\ IdleOthers
    /\ \E h \in Hints, r \in SearchResponses,
          a \in BggIds, b \in 1..(MaxResults + 2), kIn \in DetailKinds,
          kOut \in DetailKinds :
            /\ a <= b
            /\ minput = [productName |-> ProductName, hints |-> h,
                         upcResponse |-> UpcResponse(FALSE, 404, "none", <<>>),
                         responses |-> <<r, r>>,
                         details |-> DetailsOf(a, b, kIn, kOut)]
    /\ mpc = "call" /\ searchName = <<>> /\ lookups = 0
    /\ calls = <<>> /\ bestMatch = NoDetail /\ mret = NoDetail

NextScore ==
    \/ MatchLookup
    \/ MatchFirst
    \/ MatchReturn

SpecScore == InitScore /\ [][NextScore]_vars

\* Two executions of searchAndScore(productName, hints) over the same
\* candidates given in two orders.
InitRank ==
    /\ IdleOthers
    /\ \E h \in Hints, r \in SearchResponses, kIn \in DetailKinds :
         \E p \in Reordered(r.items) :
            minput = [productName |-> ProductName, hints |-> h,
                      upcResponse |-> UpcResponse(FALSE, 404, "none", <<>>),
                      responses |-> <<r, [thrown |-> FALSE, items |-> p]>>,
                      details |-> DetailsOf(3, 5, kIn, "pubA")]
    /\ mpc = "score" /\ searchName = <<>> /\ lookups = 0
    /\ calls = <<>> /\ bestMatch = NoDetail /\ mret = NoDetail

NextRank == ScoreExecution

SpecRank == InitRank /\ [][NextRank]_vars

\* One call findBestMatch(productName, hints) with or without an identifier,
\* over the answers of the identifier lookup and of the metadata service.
InitMatch ==
    /\ IdleOthers
    /\ \E upc \in {<<>>, <<"4">>},
          u \in UpcFailures \cup {UpcResponse(FALSE, 200, "items", t) : t \in Titles},
          r1, r2 \in {[thrown |-> TRUE, items |-> <<>>]}
                      \cup {[thrown |-> FALSE, items |-> ResultsOf(n, 0)] : n \in {0, 2}},
          k \in {"null", "pubA"} :
            minput = [productName |-> ProductName,
                      hints |-> [year |-> <<>>, publisher |-> <<>>, upc |-> upc],
                      upcResponse |-> u,
                      responses |-> <<r1, r2>>,
                      details |-> DetailsOf(1, 1, k, k)]
    /\ mpc = "call" /\ searchName = <<>> /\ lookups = 0
    /\ calls = <<>> /\ bestMatch = NoDetail /\ mret = NoDetail

NextMatch ==
    \/ MatchLookup
    \/ MatchFirst
    \/ MatchSecond
    \/ MatchReturn

SpecMatch == InitMatch /\ [][NextMatch]_vars

\* the catalog object of the item of one run
ItemObject(upc) ==
    [CatalogOf(1, 0)[1] EXCEPT !.name = ProductName, !.nImages = 0, !.upc = upc]

\* One run of sync-single-item whose step "search-bgg" executes
\* findBestMatch against the answers of the two services.
InitItem ==
    /\ event = [force |-> FALSE, filterName |-> <<>>]
    /\ IdleDispatcher
    /\ served = {"sync-single-item"}
    /\ ingested = 0 /\ runs = {1} /\ cancelled = FALSE /\ runNo = 1
    /\ syncedEarlier = {}
    /\ wk = [i \in {1} |-> QueuedRun]
    /\ IdleLoop /\ IdleFetch
    /\ WarmSquare /\ IdleDescription /\ IdleTrigger /\ IdleRace
    /\ \E upc \in {<<>>, <<"4">>},
          u \in {UpcResponse(FALSE, 404, "none", <<>>)}
                  \cup {UpcResponse(FALSE, 200, "items", t) : t \in Titles},
          r1, r2 \in {[thrown |-> TRUE, items |-> <<>>]}
                      \cup {[thrown |-> FALSE, items |-> ResultsOf(n, 0)] : n \in {0, 2, 5}},
          d \in {DetailsOf(1, 1, k, k) : k \in {"null", "noimage", "pubA"}}
                  \cup {DetailsOf(3, 7, "noimage", "pubA")} :
            /\ catalog = <<ItemObject(upc)>>
            /\ minput = [productName |-> ProductName,
                         hints |-> [year |-> <<>>, publisher |-> <<>>, upc |-> upc],
                         upcResponse |-> u,
                         responses |-> <<r1, r2>>,
                         details |-> d]
    /\ mpc = "idle" /\ searchName = <<>> /\ lookups = 0
    /\ calls = <<>> /\ bestMatch = NoDetail /\ mret = NoDetail

NextItem ==
    \/ WorkerStart(1)
    \/ SearchBggCall(1)
    \/ MatchLookup
    \/ MatchFirst
    \/ MatchSecond
    \/ MatchReturn
    \/ SearchBggReturn(1)
    \/ WorkerUpload(1)
    \/ WorkerRetry(1)

SpecItem == InitItem /\ [][NextItem]_vars

\* what the CATEGORY listing can hold: the usual two categories, the same
\* ids with the names exchanged, a game category in capitals next to a
\* category nothing refers to, no game category, no category at all
CategoryLists ==
    { Categories,
      << [id |-> "cG", name |-> <<"D","r","i","n","k","s">>],
         [id |-> "cD", name |-> <<"C","a","r","d"," ","G","a","m","e","s">>] >>,
      << [id |-> "cX", name |-> <<"T","A","B","L","E","T","O","P">>],
         [id |-> "cG", name |-> <<"G","A","M","E","S">>] >>,
      << [id |-> "cD", name |-> <<"D","r","i","n","k","s">>],
         [id |-> "cG", name |-> <<"G","a","m","e">>] >>,
      << >> }

\* the listing with every third object in no category
Uncategorised(cat) ==
    [k \in DOMAIN cat |-> IF k % 3 = 0 THEN [cat[k] EXCEPT !.catIds = <<>>] ELSE cat[k]]

\* The deployment over small listings, with the categories of the catalog
\* and the presence of the access token varied.
InitListing ==
    /\ event \in Events
    /\ \E n \in 0..ListItems, off \in 0..(NKinds - 1) :
          catalog \in {CatalogOf(n, off), Uncategorised(CatalogOf(n, off))}
    /\ dpc = "start" /\ dItems = <<>> /\ bi = 0 /\ sent = <<>> /\ dret = -1
    /\ served = ServedFunctions
    /\ IdlePlatform /\ IdleWorkers /\ IdleLoop /\ IdleFetch /\ IdleMatch
    /\ categories \in CategoryLists
    /\ accessToken \in BOOLEAN
    /\ client = FALSE /\ catalogRequests = 0
    /\ IdleDescription /\ IdleTrigger /\ IdleRace

SpecListing == InitListing /\ [][NextDeploy]_vars

\* an empty catalog and a catalog of one game item without image
TriggerCatalogs == {<<>>, CatalogOf(1, 7)}

\* A request to the trigger route, and what the platform then runs.
InitTrigger ==
    /\ event = [force |-> FALSE, filterName |-> <<>>]
    /\ catalog \in TriggerCatalogs
    /\ IdleDispatcher
    /\ served = {"sync-bgg-images-to-square", "sync-single-item"}
    /\ IdlePlatform
    /\ wk = [i \in 1..Len(catalog) |-> QueuedRun]
    /\ IdleLoop /\ IdleFetch /\ IdleMatch
    /\ categories = Categories /\ accessToken \in BOOLEAN
    /\ client = FALSE /\ catalogRequests = 0
    /\ IdleDescription /\ IdleRace
    /\ request \in Requests /\ reply = NoReply

NextTrigger ==
    \/ TriggerPost
    \/ DispatcherFetch
    \/ DispatcherSendBatch
    \/ DispatcherReturn
    \/ PlatformIngest
    \/ \E i \in DOMAIN wk :
        \/ WorkerStart(i)
        \/ WorkerSearch(i)
        \/ WorkerUpload(i)
        \/ WorkerRetry(i)

SpecTrigger == InitTrigger /\ [][NextTrigger]_vars

\* catalogs of the two-run deployment: an item without image next to one
\* with an image, two items without image, items with images only
SyncCatalogs == {CatalogOf(n, off) : n \in 1..SyncItems, off \in {0, 6, 7}}

\* Two runs of the dispatcher one after the other, both functions of
\* sync-images.ts run by the platform, uploads writing to the catalog.
InitSync ==
    /\ event \in {e \in Events : ~e.force /\ e.filterName \in {<<>>, <<"c","a">>}}
    /\ catalog \in SyncCatalogs
    /\ dpc = "start" /\ dItems = <<>> /\ bi = 0 /\ sent = <<>> /\ dret = -1
    /\ served = {"sync-bgg-images-to-square", "sync-single-item"}
    /\ IdlePlatform
    /\ wk = [i \in 1..Len(catalog) |-> QueuedRun]
    /\ IdleLoop /\ IdleFetch /\ IdleMatch
    /\ IdleSquare /\ IdleDescription /\ IdleTrigger /\ IdleRace

NextSync ==
    \/ DispatcherFetch
    \/ DispatcherSendBatch
    \/ DispatcherReturn
    \/ PlatformIngest
    \/ SecondRun
    \/ \E i \in DOMAIN wk :
        \/ WorkerStart(i)
        \/ WorkerSearch(i)
        \/ WorkerUpload(i)
        \/ WorkerRetry(i)

SpecSync == InitSync /\ [][NextSync]_vars

\* Two non-forced dispatcher runs in flight together over one catalog, and
\* the item runs the platform creates for the events of both.
InitRace ==
    /\ event \in {e \in Events : ~e.force /\ e.filterName \in {<<>>, <<"c","a">>}}
    /\ catalog \in SyncCatalogs
    /\ IdleDispatcher
    /\ served = {"sync-bgg-images-to-square", "sync-single-item"}
    /\ IdlePlatform /\ IdleWorkers
    /\ IdleLoop /\ IdleFetch /\ IdleMatch
    /\ IdleSquare /\ IdleDescription /\ IdleTrigger
    /\ syncRuns = [r \in SyncRunIds |-> StartedRun]
    /\ itemRuns = <<>>

NextRace ==
    \/ \E r \in DOMAIN syncRuns :
        \/ RaceFetch(r)
        \/ RaceSendBatch(r)
        \/ RaceReturn(r)
    \/ \E j \in DOMAIN itemRuns :
        \/ ItemRunStart(j)
        \/ ItemRunSearch(j)
        \/ ItemRunUpload(j)

SpecRace == InitRace /\ [][NextRace]_vars

\* Calls of updateItemDescription on one item that others edit and delete.
InitDesc ==
    /\ event = [force |-> FALSE, filterName |-> <<>>]
    /\ catalog \in {CatalogOf(1, off) : off \in 0..2}
    /\ IdleDispatcher /\ served = ServedFunctions /\ IdlePlatform /\ IdleWorkers
    /\ IdleLoop /\ IdleFetch /\ IdleMatch
    /\ WarmSquare /\ IdleDescription /\ IdleTrigger /\ IdleRace

NextDesc ==
    \/ DescCall
    \/ DescRead
    \/ DescUpsert
    \/ ExternalEdit
    \/ ExternalDelete

SpecDesc == InitDesc /\ [][NextDesc]_vars

(***************************************************************************)
(* Properties                                                              *)
(***************************************************************************)
SentEvents == UNION { Range(sent[b]) : b \in 1..Len(sent) }

SentIds == { e.data.item.objectId : e \in SentEvents }

NumSent == Cardinality(SentIds)

AuthOutcomes == {k \in 1..Len(results) : results[k]._is401}

\* the item's processing raises an error
Fails(e) == e.bgg = "fail" \/ (e.bgg = "match" /\ (~ok(e.dl) \/ e.up # "ok"))

\* the item's processing fails on a response with status 401 or 403
AuthRejected(e) ==
    \/ e.bgg = "fail" /\ e.bggStatus \in {401, 403}
    \/ e.bgg = "match" /\ ok(e.dl) /\ e.up = "fail" /\ e.upStatus \in {401, 403}

\* outcomes of items that failed on a 401 or 403 rejection
AuthFailureOutcomes ==
    {k \in 1..Len(results) : AuthRejected(env[results[k].objectId])}

\* C1 (as claimed): the run never processes an item after its 10th
\* authentication-failure outcome and then reports aborted=true; a run that
\* ends with 9 or fewer such outcomes reports aborted=false and has processed
\* every filtered item.
C1_BreakerAtTenAuthFailures ==
    /\ Cardinality(AuthFailureOutcomes) <= 10
    /\ Cardinality(AuthFailureOutcomes) = 10 => Len(results) \in AuthFailureOutcomes
    /\ lpc = "done" =>
        /\ Cardinality(AuthFailureOutcomes) = 10 => lret.aborted
        /\ Cardinality(AuthFailureOutcomes) <= 9 =>
              ~lret.aborted /\ Len(results) = Len(lItems)

\* The threshold itself, over the outcomes the run flagged _is401: never more
\* than 10 of them, none processed after the 10th, aborted exactly at 10.
BreakerThreshold ==
    /\ Cardinality(AuthOutcomes) <= 10
    /\ authErrorCount = Cardinality(AuthOutcomes)
    /\ Cardinality(AuthOutcomes) = 10 => results[Len(results)]._is401
    /\ lpc = "done" =>
        /\ lret.aborted <=> Cardinality(AuthOutcomes) = 10
        /\ ~lret.aborted => Len(results) = Len(lItems)

\* C2 (as claimed): one top-level fetchWithBackoff call issues no more than
\* 6 HTTP requests, first request and retries together.
C2_AtMostSixRequests == requests <= 6

\* C2 (amended): one top-level fetchWithBackoff call issues no more than 7
\* HTTP requests: the first request and at most 6 retries.
C2_AtMostSevenRequests == requests <= 7 /\ attempt <= 6 /\ requests <= attempt + 1

C2_Witness == fpc = "thrown" /\ requests = 7 /\ lastStatus = 429

\* C3: a 401 or 403 response makes fetchWithBackoff throw at once, at any
\* attempt number: no request and no sleep follows it.
NothingAfterAuthFailure ==
    lastStatus \in {401, 403} =>
        (requests' = requests /\ backoffs' = backoffs /\ courtesy' = courtesy)

C3_AuthFailsImmediately ==
    /\ [](lastStatus \in {401, 403} =>
            (fpc = "thrown" /\ ferr = fetchError(lastStatus, furl)))
    /\ [][NothingAfterAuthFailure]_vars

C3_Witness == lastStatus = 403 /\ attempt = 3 /\ backoffs = 3 /\ fpc = "thrown"

\* C4 (as claimed): an outcome is counted by the circuit breaker exactly when
\* the item failed on a 401 or a 403 rejection.
C4_CountsExactlyAuthFailures ==
    /\ \A k \in 1..Len(results) :
          results[k]._is401 <=> AuthRejected(env[results[k].objectId])
    /\ authErrorCount =
          Cardinality({k \in 1..Len(results) : AuthRejected(env[results[k].objectId])})

\* C5: an error raised while an item is matched or uploaded yields one outcome
\* with status error for that item, in item order, and the loop goes on: a
\* run that is not aborted ends with one outcome per filtered item.
C5_ErrorsCaughtPerItem ==
    /\ lpc # "failed"
    /\ Len(results) = idx /\ idx <= Len(lItems)
    /\ \A k \in 1..Len(results) :
          /\ results[k].objectId = lItems[k].objectId
          /\ Fails(env[lItems[k].objectId]) <=> results[k].status = "error"
    /\ lpc = "done" /\ ~lret.aborted => Len(results) = Len(lItems)

C5_Witness ==
    /\ lpc = "done" /\ ~lret.aborted
    /\ \E k \in 1..(Len(results) - 1) :
          /\ results[k].status = "error"
          /\ Fails(env[lItems[k].objectId])
          /\ results[k + 1].status = "synced"

\* C6: in a non-forced run no event is sent and no run is created for a
\* catalog item that has an image and a description.
C6_NoDispatchOfCompleteItems ==
    ~event.force =>
        \A k \in 1..Len(catalog) :
            CatalogItem(catalog[k]).hasImage /\ CatalogItem(catalog[k]).hasDescription
                => catalog[k].id \notin SentIds /\ catalog[k].id \notin runs

C6_Witness ==
    /\ dpc = "done" /\ ~event.force /\ sent # <<>>
    /\ \E k \in 1..Len(catalog) :
          /\ CatalogItem(catalog[k]).hasImage /\ CatalogItem(catalog[k]).hasDescription
          /\ isGame(catalog[k], fetchGameCategoryIds)
          /\ includes(toLowerCase(catalog[k].name), toLowerCase(event.filterName))

\* C7 (as claimed): a non-forced run dispatches every listed item that lacks
\* an image or lacks a description and passes the name filter.
C7_DispatchesEveryIncompleteItem ==
    dpc = "done" /\ ~event.force =>
        \A k \in 1..Len(catalog) :
            /\ isGame(catalog[k], fetchGameCategoryIds)
            /\ ~CatalogItem(catalog[k]).hasImage \/ ~CatalogItem(catalog[k]).hasDescription
            /\ includes(toLowerCase(catalog[k].name), toLowerCase(event.filterName))
            => catalog[k].id \in SentIds

\* C8: the batches sent are the contiguous slices of the filtered list, 100
\* items each except possibly the last; one event per item, none twice; and
\* totalItems is the number of events sent.
C8_BatchesPartitionItems ==
    /\ \A b \in 1..Len(sent) :
          /\ Len(sent[b]) >= 1 /\ Len(sent[b]) <= 100
          /\ b < Len(sent) => Len(sent[b]) = 100
          /\ \A k \in 1..Len(sent[b]) :
                /\ (b - 1) * 100 + k <= Len(dItems)
                /\ sent[b][k] = ItemEvent(dItems[(b - 1) * 100 + k])
    /\ dpc = "done" =>
          /\ NumSent = Len(dItems)
          /\ (Len(sent) - 1) * 100 + (IF sent = <<>> THEN 100 ELSE Len(sent[Len(sent)]))
                = Len(dItems)
          /\ dret = NumSent

C8_Witness ==
    /\ dpc = "done" /\ Len(sent) = 3
    /\ Len(sent[3]) < 100 /\ dret = 200 + Len(sent[3])

Terminal == {"synced", "no_match", "error"}

\* state of the item in the per-item state machine
ItemState(id) ==
    IF id \in runs /\ id \in DOMAIN wk THEN wk[id].pc ELSE "pending"

\* C9 (as claimed): every dispatched item is eventually picked up by a worker
\* and reaches synced, no_match or error.
C9_DispatchedItemsTerminate ==
    <>[](\A id \in SentIds : id \in runs /\ ItemState(id) \in Terminal)

\* C10: a worker is invoked again at most 2 times after a failed step; with
\* the retries used up the next failure puts its item in the error state; and
\* a failure of one worker leaves every other worker's record unchanged.
RetryBudgetKept ==
    \A i \in WorkItems :
        /\ wk[i].retries <= 2
        /\ wk[i].failures <= wk[i].retries + 1
        /\ wk[i].pc = "error" <=> wk[i].failures = 3

FailureIsLocal ==
    \A i \in WorkItems :
        wk'[i].failures > wk[i].failures =>
            (\A j \in WorkItems \ {i} : wk'[j] = wk[j])

CompletedStepNotRerun ==
    \A i \in DOMAIN wk :
        /\ (wk[i].match # "unset" => (wk'[i].searches = wk[i].searches))
        /\ (wk[i].imageId # "none" => (wk'[i].uploads = wk[i].uploads))

C11_CompletedStepsMemoised == [][CompletedStepNotRerun]_vars

C11_Witness ==
    \E i \in DOMAIN wk :
        /\ wk[i].pc = "synced" /\ wk[i].retries >= 1
        /\ wk[i].searches = 1 /\ wk[i].uploads >= 2

\* C12 (as claimed): an item is synced only after its asset upload and then
\* its description update have completed.
C12_SyncedAfterDescriptionUpdate ==
    \A i \in DOMAIN wk :
        wk[i].pc = "synced" => (wk[i].uploads >= 1 /\ wk[i].descUpdates >= 1)

\* C13: an upload is attempted only after a match with an image was found,
\* an item in no_match had no upload attempted, an item is synced only with
\* the image id create-image returned, no item leaves a terminal state, and
\* none returns to pending.
ItemLifecycleKept ==
    \A i \in DOMAIN wk :
        /\ (wk[i].pc = "upload" \/ wk[i].uploads > 0) => wk[i].match = "match"
        /\ wk[i].pc = "no_match" => wk[i].uploads = 0
        /\ wk[i].pc = "synced" => wk[i].imageId = "image"

ItemMovesForward ==
    \A i \in DOMAIN wk :
        /\ (wk[i].pc \in Terminal => (wk'[i].pc = wk[i].pc))
        /\ (wk[i].pc # "queued" => (wk'[i].pc # "queued"))

C14_AtMostThreeExecuting == Cardinality(Executing) <= 3

C14_Witness ==
    /\ Cardinality(Executing) = 3
    /\ \E i \in DOMAIN wk : i \in runs /\ wk[i].pc = "queued"

\* C15 (as claimed): once the cancel event is received the dispatcher sends
\* no further batch and no run that has not started begins its item.
NothingStartsAfterCancel ==
    cancelled =>
        /\ sent' = sent
        /\ \A i \in DOMAIN wk : wk[i].pc = "queued" => (wk'[i].pc = "queued")

C15_CancelStopsUnstartedWork == [][NothingStartsAfterCancel]_vars

\* a ranks before b: higher score, or equal score and smaller id
RankedBefore(a, b) ==
    a.score > b.score \/ (a.score = b.score /\ a.bggId < b.bggId)

\* the ids of the n best-ranked candidates of call c, best first
TopIds(c, n) ==
    [k \in 1..(IF n < Len(c.scored) THEN n ELSE Len(c.scored)) |->
        (CHOOSE x \in Range(c.scored) :
            Cardinality({y \in Range(c.scored) : RankedBefore(y, x)}) = k - 1).bggId]

HasImage(id) ==
    minput.details[id].found /\ minput.details[id].imageUrl # <<>>

\* the candidate passes all checks of the first tier
Passes(id) ==
    /\ HasImage(id)
    /\ minput.hints.publisher # <<>> =>
          \E p \in Range(minput.details[id].publishers) :
              includes(toLowerCase(p), toLowerCase(minput.hints.publisher))

PassingRanks(c) == {j \in 1..Len(TopIds(c, 3)) : Passes(TopIds(c, 3)[j])}

ImageRanks(c) == {j \in 1..Len(TopIds(c, 5)) : HasImage(TopIds(c, 5)[j])}

\* the search of call c answered with at least one candidate
Searched(c) == ~c.thrown /\ c.scored # <<>>

\* C16 (as claimed): when none of the top 3 passes, the second tier fetches
\* only the candidates ranked 4th and 5th, and no top-3 candidate is returned.
C16_SecondTierOnlyFourthAndFifth ==
    \A n \in 1..Len(calls) :
        LET c == calls[n]
            top == TopIds(c, 3)
        IN  (Searched(c) /\ PassingRanks(c) = {}) =>
              /\ \A j \in (Len(top) + 1)..Len(c.fetched) :
                    c.fetched[j] \in Range(TopIds(c, 5)) \ Range(top)
              /\ c.result.found => c.result.bggId \notin Range(top)

\* C16 (amended): when none of the top 3 passes, the second tier goes through
\* the candidates ranked 1st to 5th, the top 3 again included, and returns
\* the best-ranked one with an image, whatever its publishers.
C16_SecondTierFirstFiveByImage ==
    \A n \in 1..Len(calls) :
        LET c == calls[n]
            top == TopIds(c, 3)
            top5 == TopIds(c, 5)
        IN  (Searched(c) /\ PassingRanks(c) = {}) =>
              IF ImageRanks(c) # {}
                THEN /\ c.result = minput.details[top5[Min(ImageRanks(c))]]
                     /\ c.fetched = top \o SubSeq(top5, 1, Min(ImageRanks(c)))
                ELSE /\ ~c.result.found
                     /\ c.fetched = top \o top5

C16_Witness ==
    \E n \in 1..Len(calls) :
        /\ Searched(calls[n]) /\ PassingRanks(calls[n]) = {}
        /\ minput.hints.publisher # <<>>
        /\ calls[n].result.found
        /\ calls[n].result.bggId \in Range(TopIds(calls[n], 3))
        /\ Len(calls[n].scored) >= 5

\* C17: the details of the top 3 by descending score, ties by ascending id,
\* are fetched in that order; the best-ranked of them that passes is returned
\* and nothing ranked below it is fetched.
C17_TopThreeInRankOrder ==
    \A n \in 1..Len(calls) :
        LET c == calls[n]
            top == TopIds(c, 3)
        IN  Searched(c) =>
              IF PassingRanks(c) # {}
                THEN /\ c.result = minput.details[top[Min(PassingRanks(c))]]
                     /\ c.fetched = SubSeq(top, 1, Min(PassingRanks(c)))
                ELSE SubSeq(c.fetched, 1, Len(top)) = top

C17_Witness ==
    \E n \in 1..Len(calls) :
        LET c == calls[n]
        IN  /\ Searched(c) /\ Len(c.scored) >= 4
            /\ PassingRanks(c) # {} /\ Min(PassingRanks(c)) = 2
            /\ \E x, y \in Range(c.scored) :
                  /\ x.bggId = TopIds(c, 1)[1] /\ y.bggId = TopIds(c, 2)[2]
                  /\ x.score = y.score

\* 10 for a name equal to the query, 5 for one containing it, case ignored
NameScore(name, query) ==
    IF toLowerCase(name) = toLowerCase(query) THEN 10
    ELSE IF includes(toLowerCase(name), toLowerCase(query)) THEN 5 ELSE 0

\* C18 (as claimed): a score is 10, 5 or 0 by the name, plus 8 exactly when a
\* year hint is present and equals the candidate's published year; so it is
\* one of 0, 5, 8, 10, 13, 18.
C18_ScoreByNameAndYear ==
    \A n \in 1..Len(calls) :
        \A x \in Range(calls[n].scored) :
            /\ x.score = NameScore(x.name, calls[n].searchName)
                  + (IF minput.hints.year # <<>> /\ x.yearPublished = minput.hints.year
                       THEN 8 ELSE 0)
            /\ x.score \in {0, 5, 8, 10, 13, 18}

\* the same with a year hint of 0 counted as no hint; holds
ScoreByNameAndNonZeroYear ==
    \A n \in 1..Len(calls) :
        \A x \in Range(calls[n].scored) :
            /\ x.score = NameScore(x.name, calls[n].searchName)
                  + (IF minput.hints.year \notin {<<>>, <<0>>}
                        /\ x.yearPublished = minput.hints.year
                       THEN 8 ELSE 0)
            /\ x.score \in {0, 5, 8, 10, 13, 18}

\* the name findBestMatch is to search first: the cleaned title when the
\* identifier lookup answered one, the item's name otherwise
CleanedName ==
    IF minput.hints.upc # <<>> /\ lookupUpc(minput.upcResponse).found
         /\ lookupUpc(minput.upcResponse).title # <<>>
      THEN cleanTitle(lookupUpc(minput.upcResponse).title)
      ELSE minput.productName

\* C19: the first searchAndScore runs with the cleaned name; a second one
\* runs, with the item's name, if and only if the first returned no match and
\* the cleaned name differs from the item's name; never more than two run, and
\* the first run's match is the one returned when there is one.
C19_SecondSearchOnlyAsFallback ==
    /\ Len(calls) <= 2
    /\ Len(calls) >= 1 => calls[1].searchName = CleanedName
    /\ Len(calls) = 2 =>
          /\ ~calls[1].thrown /\ ~calls[1].result.found
          /\ CleanedName # minput.productName
          /\ calls[2].searchName = minput.productName
    /\ mpc = "done" =>
          /\ Len(calls) >= 1
          /\ (~calls[1].result.found /\ CleanedName # minput.productName)
                => Len(calls) = 2
          /\ calls[1].result.found => mret = calls[1].result

C19_Witness ==
    /\ mpc = "done" /\ Len(calls) = 2
    /\ calls[1].searchName # calls[2].searchName
    /\ mret.found

\* C20 (as claimed): no search is requested with an empty query, and a title
\* that cleans to the empty string makes the item's name the first query.
C20_NoEmptyQuery ==
    /\ \A n \in 1..Len(calls) : calls[n].url # SearchUrl(<<>>)
    /\ (Len(calls) >= 1 /\ minput.hints.upc # <<>> /\ lookupUpc(minput.upcResponse).found
          /\ cleanTitle(lookupUpc(minput.upcResponse).title) = <<>>)
         => calls[1].searchName = minput.productName

\* the identifier lookup has failed: network failure, non-2xx answer,
\* unparsable body, missing or empty result list
LookupFailed ==
    /\ minput # <<>> /\ minput.hints.upc # <<>> /\ mpc # "call"
    /\ minput.upcResponse \in UpcFailures

\* C21: lookupUpc never raises: when the lookup fails in any of these ways it
\* answers null, findBestMatch is never left by an error of the lookup (an
\* error exit always comes from a search call), and the first search is made
\* with the item's own name.
C21_LookupNeverRaises ==
    /\ (mpc = "thrown" => Len(calls) >= 1 /\ calls[Len(calls)].thrown)
    /\ (LookupFailed =>
          /\ lookups = 1
          /\ lookupUpc(minput.upcResponse) = NoUpcResult
          /\ searchName = minput.productName
          /\ (Len(calls) >= 1 => calls[1].searchName = minput.productName))

C21_Witness ==
    /\ LookupFailed /\ mpc = "done" /\ Len(calls) >= 1
    /\ minput.upcResponse.network
    /\ calls[1].searchName = minput.productName

\* the item has no UPC and the metadata search answers with no candidate
NoUpcNoCandidates ==
    /\ minput.hints.upc = <<>>
    /\ ~minput.responses[1].thrown /\ minput.responses[1].items = <<>>

\* C22: for an item without UPC whose search returns no candidate,
\* findBestMatch makes one search and no detail fetch and returns null, the
\* run ends with no_match, never reaches the upload step, and the catalog
\* object is not written.
C22_NoCandidatesNoMatch ==
    NoUpcNoCandidates =>
        /\ Len(calls) <= 1
        /\ \A c \in 1..Len(calls) : calls[c].fetched = <<>>
        /\ mpc # "thrown"
        /\ (mpc = "done" => ~mret.found)
        /\ wk[1].pc \in {"queued", "search", "no_match"}
        /\ (wk[1].searches >= 1 => wk[1].pc = "no_match")
        /\ wk[1].uploads = 0
        /\ catalog = <<ItemObject(<<>>)>>

C22_Witness ==
    /\ NoUpcNoCandidates /\ wk[1].pc = "no_match" /\ wk[1].searches = 1
    /\ Len(calls) = 1 /\ ~mret.found
    /\ minput.responses[2].items # <<>>

\* the item is matched and the download of its image is answered non-2xx
DownloadFails(e) == e.bgg = "match" /\ ~ok(e.dl)

DownloadFailures == {k \in 1..Len(results) : DownloadFails(env[results[k].objectId])}

\* C23 (as claimed): an item whose image download is answered non-2xx gets
\* the outcome error and is not counted as synced, no create-image call is
\* made for it so its catalog object is unchanged, and the items after it are
\* still processed: a run with a download failure and without any
\* authentication failure ends with one outcome per filtered item.
C23_DownloadFailureIsItemError ==
    /\ \A k \in DownloadFailures :
          /\ results[k].status = "error"
          /\ catalog[results[k].objectId].keys = {}
          /\ catalog[results[k].objectId].nImages
                = IF lItems[k].hasImage THEN 1 ELSE 0
    /\ lpc = "done" =>
          lret.synced = Cardinality({k \in 1..Len(results) :
                           ~Fails(env[results[k].objectId])
                           /\ env[results[k].objectId].bgg = "match"})
    /\ (lpc = "done" /\ DownloadFailures # {} /\ AuthFailureOutcomes = {})
          => Len(results) = Len(lItems)

\* the number of edits by others that the item's name holds
EditsHeld(obj) == Cardinality({k \in 1..Len(obj.name) : obj.name[k] = "!"})

\* the upsert requests among the finished calls
UpsertCalls == {k \in 1..Len(descLog) : descLog[k].upserted}

\* C24: every upsert of updateItemDescription carries the version read at
\* the start of the same call; an upsert issued after someone else's edit
\* landed since that read is rejected and the call fails, so no edit is ever
\* overwritten (the item's name holds every edit made); an upsert with no
\* edit in between is accepted and the call succeeds.
C24_UpsertWithVersionRead ==
    /\ \A k \in UpsertCalls :
          /\ descLog[k].version = descLog[k].read.version
          /\ descLog[k].stale => ~descLog[k].accepted
          /\ ~descLog[k].stale => descLog[k].accepted
    /\ (descPc = "failed" /\ Len(descLog) >= 1) => ~descLog[Len(descLog)].accepted
    /\ (descPc = "done") => descLog[Len(descLog)].accepted
    /\ 1 \in DOMAIN catalog => EditsHeld(catalog[1]) = edits

C24_Witness ==
    /\ descPc = "done" /\ Len(descLog) >= 2 /\ edits >= 1
    /\ \E k \in UpsertCalls :
          /\ k < Len(descLog)
          /\ descLog[k].stale /\ ~descLog[k].accepted
          /\ descLog[k + 1].accepted
          /\ descLog[k + 1].version = descLog[k].version + 1

\* C25: a call that finds the item gone fails and issues no upsert (upserts
\* are issued only by calls that read an object), and a call that succeeds
\* leaves the item as it was read except for the description and the
\* version the service advances.
C25_OnlyDescriptionChanges ==
    /\ upserts = Cardinality(UpsertCalls)
    /\ descPc = "upsert" => existing # NoObject
    /\ \A k \in 1..Len(descLog) :
          /\ descLog[k].read = NoObject => ~descLog[k].upserted /\ ~descLog[k].accepted
          /\ descLog[k].upserted => descLog[k].read # NoObject
          /\ descLog[k].accepted =>
                /\ descLog[k].after.desc \in Descriptions
                /\ [descLog[k].after EXCEPT !.desc = descLog[k].read.desc,
                                            !.version = descLog[k].read.version]
                      = descLog[k].read

C25_Witness ==
    /\ 1 \notin DOMAIN catalog /\ descPc = "failed" /\ Len(descLog) >= 2
    /\ descLog[1].accepted /\ descLog[1].after.desc # descLog[1].read.desc
    /\ descLog[Len(descLog)].read = NoObject
    /\ upserts = Len(descLog) - 1

\* the images created on item i by create-image calls of run r
CreatedIn(i, r) == {key \in catalog[i].keys : key[3][1] = r}

\* C26: in the second non-forced run, an item that reached synced in the
\* completed first run is not among the filtered items, no event is sent and
\* no run is created for it, its worker state stays as the first run left
\* it, and no create-image call of the second run writes to it.
C26_SyncedItemsNotRedone ==
    \A i \in syncedEarlier :
        /\ runNo = 2
        /\ \A k \in 1..Len(dItems) : dItems[k].objectId # i
        /\ i \notin SentIds
        /\ i \notin runs
        /\ wk[i].pc = "synced"
        /\ CreatedIn(i, 2) = {}
        /\ catalog[i].nImages >= 1

C26_Witness ==
    /\ runNo = 2 /\ dpc = "done" /\ Settled /\ ingested = Len(sent)
    /\ 1 \in syncedEarlier
    /\ 2 \in runs /\ wk[2].uploads >= 1 /\ CreatedIn(2, 2) # {}

\* C27 (as claimed): all invocations of one worker together create at most
\* one image on the worker's catalog item.
C27_AtMostOneImagePerWorker ==
    \A i \in DOMAIN catalog : \A r \in 1..2 : Cardinality(CreatedIn(i, r)) <= 1

\* the recognized game categories: ids of the categories whose lower-cased
\* name contains a keyword
Recognized ==
    {categories[c].id : c \in {c \in 1..Len(categories) :
        \E kw \in 1..Len(GAME_CATEGORY_KEYWORDS) :
            includes(toLowerCase(categories[c].name), GAME_CATEGORY_KEYWORDS[kw])}}

\* the catalog objects with at least one recognized category
GameObjects == {k \in 1..Len(catalog) : Range(catalog[k].catIds) \cap Recognized # {}}

Listed == {dItems[k].objectId : k \in 1..Len(dItems)}

\* C28: every item the dispatcher holds after listCatalogItems has a category
\* id among the recognized game categories; an item in no category or in
\* non-game categories only is never among them; with no recognized game
\* category the list is empty; and in a forced run without name filter,
\* where nothing else filters, the list is exactly the game items.
C28_OnlyGameCategoryItems ==
    dpc \in {"batch", "done"} =>
        /\ \A k \in 1..Len(dItems) :
              Range(dItems[k].categoryIds) \cap Recognized # {}
        /\ Listed \subseteq GameObjects
        /\ Recognized = {} => dItems = <<>>
        /\ (event.force /\ event.filterName = <<>>) => Listed = GameObjects

C28_Witness ==
    /\ dpc = "done" /\ event.force /\ event.filterName = <<>>
    /\ Len(dItems) >= 2
    /\ \E k \in 1..Len(catalog) : catalog[k].catIds = <<>> /\ k \notin Listed
    /\ \E k \in 1..Len(catalog) :
          /\ catalog[k].catIds # <<>> /\ k \notin Listed
    /\ \E k \in Listed : Len(catalog[k].catIds) = 2

\* C29: with the access token absent, the listing fails before any catalog
\* request, the failed attempt caches no client, and the dispatcher ends
\* failed without holding, sending or starting any item.
C29_NoTokenNothingDispatched ==
    ~accessToken =>
        /\ dpc \in {"start", "failed"}
        /\ catalogRequests = 0
        /\ client = FALSE
        /\ dItems = <<>> /\ sent = <<>> /\ runs = {} /\ dret = -1

C29_Witness ==
    /\ ~accessToken /\ dpc = "failed" /\ event.force
    /\ GameObjects # {}
    /\ catalogRequests = 0 /\ ~client /\ sent = <<>>

\* an error occurs in the route before the event is sent: the body is the
\* JSON value null, or inngest.send throws
FatalBeforeDispatch == request.body.kind = "null" \/ request.send = "throws"

\* C30: the route answers ok:false exactly when an error occurs before the
\* event is sent, and then nothing is queued or dispatched; otherwise it
\* answers ok:true and the run is queued; a missing or unparsable body
\* queues a run with force=false and no name filter; and whatever fails
\* afterwards (the listing, an item's run) leaves the answer ok:true.
C30_OkFalseOnlyBeforeDispatch ==
    /\ reply = NoReply => dpc = "idle"
    /\ reply # NoReply =>
          /\ reply.ok <=> ~FatalBeforeDispatch
          /\ ~reply.ok => dpc = "idle" /\ sent = <<>> /\ runs = {}
                           /\ event = [force |-> FALSE, filterName |-> <<>>]
          /\ reply.ok => dpc # "idle"
          /\ (jsonRejects(request.body) /\ request.send = "ok") =>
                reply.ok /\ event = [force |-> FALSE, filterName |-> <<>>]
    /\ (dpc = "failed" \/ \E i \in DOMAIN wk : wk[i].pc = "error") => reply.ok

C30_Witness ==
    /\ request.body.kind = "unparsable"
    /\ reply = [ok |-> TRUE, status |-> 200]
    /\ event = [force |-> FALSE, filterName |-> <<>>]
    /\ dpc = "done" /\ 1 \in runs /\ wk[1].pc = "error"

\* 429 or 5xx
Retryable(st) == st = 429 \/ st >= 500

\* C31: the backoff sleep before retry number k (k = 0 for the first retry)
\* lies in [2000 * 2^k, 2000 * 2^k + 1000) milliseconds, so the least sleep
\* doubles from one retry to the next, and a sleep and the retry after it
\* follow only a 429 or 5xx response.
C31_BackoffDelayRange ==
    /\ Len(delays) = backoffs /\ backoffs <= attempt + 1
    /\ \A k \in 0..(Len(delays) - 1) :
          /\ delays[k + 1] >= 2000 * 2 ^ k
          /\ delays[k + 1] < 2000 * 2 ^ k + 1000
    /\ \A k \in 1..(Len(delays) - 1) :
          delays[k + 1] - (delays[k + 1] % 1000) = 2 * (delays[k] - (delays[k] % 1000))
    /\ fpc = "backoff" => Retryable(lastStatus)
    /\ (attempt > 0 /\ fpc \in {"call", "fetch"}) => Retryable(lastStatus)
    /\ requests > 1 => backoffs >= requests - 1

C31_Witness ==
    /\ Len(delays) = 6 /\ fpc = "thrown"
    /\ delays[1] = 2000 /\ delays[2] = 4999 /\ delays[6] = 64417

\* the operation has ended: it returned the body or threw
FetchEnded == fpc \in {"returned", "thrown"}

\* C32 (safety part): the operation returns exactly at a 2xx response, fails
\* at the very request answered by a non-2xx status other than 429 and 5xx
\* (after one request when that is the first answer), fails at the request
\* made at the attempt ceiling when every answer was 429 or 5xx, and makes
\* no request once it has ended.
FetchEndsAsClaimed ==
    /\ fpc = "returned" <=> (requests >= 1 /\ ok(lastStatus))
    /\ (requests >= 1 /\ ~ok(lastStatus) /\ ~Retryable(lastStatus)) =>
          (fpc = "thrown" /\ requests = attempt + 1)
    /\ (requests = 1 /\ ~ok(lastStatus) /\ ~Retryable(lastStatus)) =>
          (fpc = "thrown" /\ backoffs = 0)
    /\ (fpc = "thrown" /\ Retryable(lastStatus)) =>
          (attempt = MAX_RETRIES /\ requests = MAX_RETRIES + 1)
    /\ attempt <= MAX_RETRIES

\* C32: fetchWithBackoff terminates for every sequence of responses, and it
\* ends the way FetchEndsAsClaimed says.
C32_FetchTerminates ==
    /\ []FetchEndsAsClaimed
    /\ <>FetchEnded
    /\ [][FetchEnded => UNCHANGED vars]_vars

C32_Witness ==
    /\ fpc = "thrown" /\ lastStatus = 503 /\ requests = MAX_RETRIES + 1
    /\ Len(delays) = MAX_RETRIES

\* the identifier lookup resolved a title and findBestMatch has cleaned it
TitleCleaned ==
    /\ mpc # "call" /\ minput.hints.upc # <<>>
    /\ lookupUpc(minput.upcResponse).found
    /\ lookupUpc(minput.upcResponse).title # <<>>

\* C33 (as claimed): the cleaning of findBestMatch is idempotent: for every
\* resolved title, cleaning the cleaned title again gives the cleaned title.
C33_CleaningIdempotent ==
    TitleCleaned =>
        /\ searchName = cleanTitle(lookupUpc(minput.upcResponse).title)
        /\ cleanTitle(searchName) = searchName

\* occurrences of the phrase "board game" in s, case ignored
Phrases(s) == {b \in 1..Len(s) : boardGameAt(s, b)}

\* the cleaning is idempotent on the titles that hold the phrase "board game"
\* at most once
CleaningIdempotentOnSinglePhrase ==
    (TitleCleaned /\ Cardinality(Phrases(lookupUpc(minput.upcResponse).title)) <= 1)
        => cleanTitle(searchName) = searchName

\* the score call c gave to the candidate with the given id
ScoreOf(c, id) == (CHOOSE x \in Range(c.scored) : x.bggId = id).score

\* position of the candidate with the given id in the results answered to
\* the n-th execution
InputRank(n, id) ==
    CHOOSE k \in 1..Len(minput.responses[n].items) :
        minput.responses[n].items[k].bggId = id

\* C34: two executions of searchAndScore over the same query, the same hints
\* and the same candidates with distinct ids, given in any two orders, give
\* every candidate the same score and rank the candidates in the same order.
C34_RankingDeterministic ==
    Len(calls) = 2 =>
        /\ {x.bggId : x \in Range(calls[1].scored)}
              = {x.bggId : x \in Range(calls[2].scored)}
        /\ \A x \in Range(calls[1].scored) :
              ScoreOf(calls[2], x.bggId) = x.score
        /\ calls[1].ranked = calls[2].ranked
        /\ calls[1].ranked = TopIds(calls[1], Len(calls[1].scored))

\* both executions are done over results in different orders, and two
\* candidates of equal score come in one order in the first results and in
\* the other order in the second
C34_Witness ==
    /\ Len(calls) = 2 /\ Len(calls[1].scored) >= 4
    /\ minput.responses[1].items # minput.responses[2].items
    /\ \E x, y \in Range(calls[1].scored) :
          /\ x.bggId # y.bggId /\ x.score = y.score
          /\ InputRank(1, x.bggId) < InputRank(1, y.bggId)
          /\ InputRank(2, x.bggId) > InputRank(2, y.bggId)

\* position in the catalog of the object with the given id
CatalogRank(id) == CHOOSE k \in 1..Len(catalog) : catalog[k].id = id

\* the event sent right after the k-th event of batch b, if there is one
NextSent(b, k) ==
    IF k < Len(sent[b]) THEN <<sent[b][k + 1]>>
    ELSE IF b < Len(sent) THEN <<sent[b + 1][1]>> ELSE <<>>

\* C35: with a non-empty filterName only items whose name contains it, case
\* ignored, are dispatched; with no filterName the name filter removes
\* nothing (every listed item that passes the image filter is dispatched);
\* the events are sent in catalog order, and each carries the item as the
\* listing gave it.
C35_NameFilter ==
    /\ \A b \in 1..Len(sent) : \A k \in 1..Len(sent[b]) :
          LET e == sent[b][k]
          IN  /\ event.filterName # <<>> =>
                    includes(toLowerCase(e.data.item.name),
                             toLowerCase(event.filterName))
              /\ e.name = "sync/item.process"
              /\ \E c \in 1..Len(catalog) :
                    /\ catalog[c].id = e.data.item.objectId
                    /\ e.data.item = CatalogItem(catalog[c])
              /\ \A f \in Range(NextSent(b, k)) :
                    CatalogRank(e.data.item.objectId)
                      < CatalogRank(f.data.item.objectId)
    /\ (dpc = "done" /\ event.filterName = <<>>) =>
          \A c \in 1..Len(catalog) :
              (isGame(catalog[c], fetchGameCategoryIds)
                 /\ (event.force \/ catalog[c].nImages = 0))
                => catalog[c].id \in SentIds

\* a run with an upper-case filterName has dispatched items whose names hold
\* it in lower case, and has left out an item of another name that passes
\* the image filter
C35_Witness ==
    /\ dpc = "done" /\ event.filterName = <<"A","Z">> /\ Len(sent) >= 1
    /\ \E e \in SentEvents : e.data.item.name = <<"a","z">>
    /\ \E c \in 1..Len(catalog) :
          /\ isGame(catalog[c], fetchGameCategoryIds)
          /\ event.force \/ catalog[c].nImages = 0
          /\ catalog[c].id \notin SentIds

\* C36: in every state of the single-loop run the results are the outcomes of
\* the first filtered items, one each and in item order; the synced, no_match
\* and error counts add up to the number of results; there are never more
\* results than filtered items, and as many when the run returns without
\* having aborted; the authentication-error count is at most 10 and at most
\* the number of error results.
C36_LoopAccounting ==
    /\ Len(results) <= Len(lItems)
    /\ Len(results) = idx
    /\ \A k \in 1..Len(results) :
          /\ results[k].objectId = lItems[k].objectId
          /\ results[k].status \in {"synced", "no_match", "error"}
          /\ \A j \in 1..Len(results) :
                results[j].objectId = results[k].objectId => j = k
    /\ CountStatus(results, "synced") + CountStatus(results, "no_match")
          + CountStatus(results, "error") = Len(results)
    /\ authErrorCount <= 10
    /\ authErrorCount <= CountStatus(results, "error")
    /\ authErrorCount = Cardinality(AuthOutcomes)
    /\ lpc = "done" =>
          /\ lret.synced + lret.noMatch + lret.errored = lret.nResults
          /\ lret.nResults = Len(results)
          /\ lret.authErrorCount = authErrorCount
          /\ ~lret.aborted => lret.nResults = Len(lItems)

\* an aborted run has returned with fewer results than items, with errors
\* that are not authentication errors among them
C36_Witness ==
    /\ lpc = "done" /\ lret.aborted
    /\ lret.nResults < Len(lItems)
    /\ lret.authErrorCount = 10 /\ lret.errored > 10

\* the images the sync has created on catalog object i
CreatedBySync(i) == Cardinality(catalog[i].keys)

\* the item runs that have uploaded an image for catalog object i
Uploaders(i) ==
    {j \in 1..Len(itemRuns) :
        itemRuns[j].item.objectId = catalog[i].id /\ itemRuns[j].pc = "synced"}

\* C37 (as claimed): with two non-forced runs in flight together, an item
\* that had no image ends with at most one image created by the sync, and no
\* item is processed to an upload by two item runs.
C37_NoDuplicateUpload ==
    \A i \in 1..Len(catalog) :
        /\ catalog[i].nImages - CreatedBySync(i) = 0 => CreatedBySync(i) <= 1
        /\ Cardinality(Uploaders(i)) <= 1

\* a detail record that is not null and has an image URL
WithImage(detail) == detail.found /\ detail.imageUrl # <<>>

\* C38: whatever findBestMatch returns that is not null has an image URL,
\* whether the first or the second search produced it and whether the top
\* three or the fallback over the top five did; and the upload step of the
\* run is entered only with such a match.
C38_MatchHasImageUrl ==
    /\ \A n \in 1..Len(calls) : calls[n].result.found => WithImage(calls[n].result)
    /\ bestMatch.found => WithImage(bestMatch)
    /\ mret.found => WithImage(mret)
    /\ (wk[1].pc = "upload" \/ wk[1].uploads >= 1) =>
          /\ wk[1].match = "match"
          /\ WithImage(mret)

\* the second search, made with the item's name, found its match in the
\* fallback over the top five after fetching details without image, and the
\* upload has been made with it
C38_Witness ==
    /\ Len(calls) = 2 /\ calls[2].result.found
    /\ calls[2].searchName = minput.productName
    /\ Len(calls[2].fetched) > 3
    /\ \E id \in Range(calls[2].fetched) : ~WithImage(minput.details[id])
    /\ mret = calls[2].result
    /\ wk[1].uploads >= 1 /\ wk[1].pc = "synced"

\* number of detail fetches call c made for the candidate with the given id
FetchesOf(c, id) == Cardinality({k \in 1..Len(c.fetched) : c.fetched[k] = id})

\* detail is fetched only for candidates ranked in the top 5
FetchesWithinTopFive ==
    \A n \in 1..Len(calls) :
        Range(calls[n].fetched) \subseteq Range(TopIds(calls[n], 5))

\* C39 (as claimed): one execution of searchAndScore fetches detail only for
\* candidates ranked in the top 5, each candidate's at most once, and so
\* makes at most 5 detail fetches.
C39_AtMostFiveDetailFetches ==
    /\ FetchesWithinTopFive
    /\ \A n \in 1..Len(calls) :
          /\ \A id \in Range(calls[n].fetched) : FetchesOf(calls[n], id) <= 1
          /\ Len(calls[n].fetched) <= 5

\* what the code keeps: at most 8 detail fetches, no candidate's more than
\* twice, and a second fetch only for the top 3 when none of them passed
DetailFetchesAsCoded ==
    /\ FetchesWithinTopFive
    /\ \A n \in 1..Len(calls) :
          /\ Len(calls[n].fetched) <= 8
          /\ \A id \in Range(calls[n].fetched) :
                /\ FetchesOf(calls[n], id) <= 2
                /\ FetchesOf(calls[n], id) = 2 =>
                      /\ id \in Range(TopIds(calls[n], 3))
                      /\ PassingRanks(calls[n]) = {}
====
